---- MODULE Spec2Model ----
(***************************************************************************)
(* Experiment tracking facade of google/cloud/aiplatform/metadata/         *)
(* metadata.py: the _ExperimentTracker (experiments, runs with a remote    *)
(* lifecycle state) and the legacy _MetadataService, both over a remote    *)
(* metadata store.  Every operation is one atomic action: the component is *)
(* single threaded and synchronous.  A remote call may answer with a       *)
(* transient error; an external writer may delete a run or occupy a name   *)
(* with a resource of another kind.                                        *)
(***************************************************************************)
EXTENDS Naturals, Sequences, FiniteSets, TLC

VARIABLES
    tracker,    \* _ExperimentTracker: [experiment, run] (_experiment, _experiment_run)
    contexts,   \* remote Context resources by id: their schema title
    runs,       \* remote lifecycle state of every experiment run, by composed id
    last,       \* outcome of the last operation: what the caller observed
    nExternal,  \* number of steps the external writer has taken
    service,    \* _MetadataService: [experiment, run, metrics] (_experiment, _run, _metrics)
    store,      \* remote store of the legacy service: contexts, executions,
                \* artifacts and the links between them
    table,      \* the table the last operation returned, when it was a table
                \* query: the row of every run execution it listed
    inflight,   \* the log_params / log_metrics call in progress or last
                \* completed, with the remote calls it has issued
    journal,    \* history: the runs started through the service, with what
                \* was logged on each, and the run that is active
    threads,    \* the threads that call the tracker: where each stands in its
                \* call and what it holds, and whether calls have overlapped
    agent,      \* LangchainAgent: [project, location, llm, runnable] (_project,
                \* _location, _llm, _runnable), and what its calls have done
    global_config   \* initializer.global_config: [project, location]

vars == <<tracker, contexts, runs, last, nExternal, service, store, table,
          inflight, journal, threads, agent, global_config>>

(***************************************************************************)
(* Bounds and names                                                        *)
(***************************************************************************)
MaxExternal == 1          \* steps of the external writer

None == "None"            \* Python's None
ABSENT == "ABSENT"        \* the remote store holds no resource under the id

ExperimentNames == {"e1", "e2"}
RunNames == {"r1", "r2"}

SYSTEM_EXPERIMENT == "system.Experiment"
SYSTEM_PIPELINE == "system.Pipeline"

RUNNING == "RUNNING"
COMPLETE == "COMPLETE"
FAILED == "FAILED"
TerminalStates == {COMPLETE, FAILED}

\* f"{experiment.name}-{run}"
RunId(experiment, run_name) == experiment \o "-" \o run_name

RunIds == {RunId(e, r) : e \in ExperimentNames, r \in RunNames}

NoRun == [run_name |-> None, experiment |-> None]

\* id of the ExperimentRun object the tracker holds
RunIdOf(run) == RunId(run.experiment, run.run_name)

(***************************************************************************)
(* Outcome of an operation: the call (op, arg, resume), what it raised     *)
(* (result, message), the remote calls it issued, whether it logged a      *)
(* warning, and the run that was active when it was called (prev).         *)
(***************************************************************************)
OK == "ok"
NotSet == "NotSet"                    \* ValueError: no experiment / no run
NotFound == "NotFound"                \* exceptions.NotFound
SchemaConflict == "SchemaConflict"    \* ValueError: name used by another kind
RemoteError == "RemoteError"          \* any other failure of a remote call

Outcome(op, arg, resume, result, message, calls, warned, prev) ==
    [op |-> op, arg |-> arg, resume |-> resume, result |-> result,
     message |-> message, calls |-> calls, warned |-> warned, prev |-> prev]

NoOutcome == Outcome("init", None, FALSE, OK, "", 0, FALSE, NoRun)

(***************************************************************************)
(* _ExperimentTracker._validate_experiment_and_run: the message raised, or *)
(* "" when both the experiment and the run are set.                        *)
(***************************************************************************)
_validate_experiment_and_run(experiment, run, method_name) ==
    IF experiment = None
    THEN "No experiment set. Make sure to call aiplatform.init(experiment='my-experiment') "
         \o "before trying to " \o method_name \o ". "
    ELSE IF run = NoRun
    THEN "No run set. Make sure to call aiplatform.start_run('my-run') before trying to "
         \o method_name \o ". "
    ELSE ""

(***************************************************************************)
(* The experiment resources the tracker delegates to.                      *)
(* fault: the remote call (a flag, or the index of the call within the     *)
(* operation) that answers with a transient error.                         *)
(***************************************************************************)

\* Experiment.get_or_create(experiment_name, description): the description is
\* stored with the resource and is not part of this state
Experiment_get_or_create(ctx, name, fault) ==
    IF fault
    THEN [err |-> RemoteError, contexts |-> ctx]
    ELSE IF ctx[name] = ABSENT
    THEN [err |-> OK, contexts |-> [ctx EXCEPT ![name] = SYSTEM_EXPERIMENT]]
    ELSE IF ctx[name] # SYSTEM_EXPERIMENT
    THEN [err |-> SchemaConflict, contexts |-> ctx]
    ELSE [err |-> OK, contexts |-> ctx]

\* ExperimentRun(run_name, experiment): looks the run up by its composed id
ExperimentRun_init(rs, id, fault) ==
    IF fault THEN [err |-> RemoteError, runs |-> rs]
    ELSE IF rs[id] = ABSENT THEN [err |-> NotFound, runs |-> rs]
    ELSE [err |-> OK, runs |-> rs]

\* ExperimentRun.create(run_name, experiment, tensorboard)
ExperimentRun_create(rs, id, fault) ==
    IF fault THEN [err |-> RemoteError, runs |-> rs]
    ELSE IF rs[id] = ABSENT THEN [err |-> OK, runs |-> [rs EXCEPT ![id] = RUNNING]]
    ELSE [err |-> OK, runs |-> rs]

\* ExperimentRun.update_state(state) and ExperimentRun.end_run(state)
ExperimentRun_update_state(rs, id, state, fault) ==
    IF fault THEN [err |-> RemoteError, runs |-> rs]
    ELSE IF rs[id] = ABSENT THEN [err |-> NotFound, runs |-> rs]
    ELSE [err |-> OK, runs |-> [rs EXCEPT ![id] = state]]

ExperimentRun_end_run(rs, id, state, fault) ==
    ExperimentRun_update_state(rs, id, state, fault)

\* ExperimentRun.log_params / ExperimentRun.log_metrics: re-fetch the resource,
\* then update it
ExperimentRun_log(rs, id, fault) ==
    IF fault = 1 THEN [err |-> RemoteError, calls |-> 1]
    ELSE IF rs[id] = ABSENT THEN [err |-> NotFound, calls |-> 1]
    ELSE IF fault = 2 THEN [err |-> RemoteError, calls |-> 2]
    ELSE [err |-> OK, calls |-> 2]

(***************************************************************************)
(* _ExperimentTracker.  Each operation maps the tracker and the remote     *)
(* store to the new tracker, the new store and what the caller observes.   *)
(***************************************************************************)
Ret(tr, ctx, rs, result, message, calls, warned) ==
    [tracker |-> tr, contexts |-> ctx, runs |-> rs, result |-> result,
     message |-> message, calls |-> calls, warned |-> warned]

ExperimentTracker_reset(tr) == [experiment |-> None, run |-> NoRun]

\* variant: the tracker is not reset before the experiment is fetched
ExperimentTracker_set_experiment_no_reset(tr, ctx, rs, experiment, fault) ==
    LET g == Experiment_get_or_create(ctx, experiment, fault = 1)
    IN  IF g.err # OK
        THEN Ret(tr, g.contexts, rs, g.err, "", 1, FALSE)
        ELSE Ret([tr EXCEPT !.experiment = experiment], g.contexts, rs, OK, "",
                 1, FALSE)

\* variant: the active run is ended remotely, and an error of that call raised,
\* before the tracker is reset
ExperimentTracker_set_experiment_end_first(tr, ctx, rs, experiment, fault) ==
    LET e == IF tr.run # NoRun
             THEN ExperimentRun_end_run(rs, RunIdOf(tr.run), COMPLETE, FALSE)
             ELSE [err |-> OK, runs |-> rs]
        g == Experiment_get_or_create(ctx, experiment, fault = 1)
    IN  IF e.err # OK
        THEN Ret(tr, ctx, rs, e.err, "", 1, FALSE)
        ELSE IF g.err # OK
        THEN Ret(ExperimentTracker_reset(tr), g.contexts, e.runs, g.err, "", 2,
                 FALSE)
        ELSE Ret([ExperimentTracker_reset(tr) EXCEPT !.experiment = experiment],
                 g.contexts, e.runs, OK, "", 2, FALSE)

\* backing_tensorboard and tensorboard are handed to the tensorboard service,
\* which is outside this model: the calls are made with none given
ExperimentTracker_set_experiment(tr, ctx, rs, experiment, fault) ==
    LET tr0 == ExperimentTracker_reset(tr)
        g == Experiment_get_or_create(ctx, experiment, fault = 1)
    IN  IF g.err # OK
        THEN Ret(tr0, g.contexts, rs, g.err, "", 1, FALSE)
        ELSE Ret([tr0 EXCEPT !.experiment = experiment], g.contexts, rs, OK, "",
                 1, FALSE)

\* variant: no "except exceptions.NotFound" clause
ExperimentTracker_end_run_reraise(tr, ctx, rs, state, fault) ==
    LET msg == _validate_experiment_and_run(tr.experiment, tr.run, "end_run")
    IN  IF msg # ""
        THEN Ret(tr, ctx, rs, NotSet, msg, 0, FALSE)
        ELSE LET e == ExperimentRun_end_run(rs, RunIdOf(tr.run), state, fault = 1)
             IN  Ret([tr EXCEPT !.run = NoRun], ctx, e.runs, e.err, "", 1, FALSE)

\* variant: the reference is cleared after the remote call instead of in a
\* "finally" clause
ExperimentTracker_end_run_no_finally(tr, ctx, rs, state, fault) ==
    LET msg == _validate_experiment_and_run(tr.experiment, tr.run, "end_run")
    IN  IF msg # ""
        THEN Ret(tr, ctx, rs, NotSet, msg, 0, FALSE)
        ELSE LET e == ExperimentRun_end_run(rs, RunIdOf(tr.run), state, fault = 1)
             IN  IF e.err = RemoteError
                 THEN Ret(tr, ctx, e.runs, e.err, "", 1, FALSE)
                 ELSE Ret([tr EXCEPT !.run = NoRun], ctx, e.runs, OK, "", 1,
                          e.err = NotFound)

\* variant: with no run to end the call returns without an error
ExperimentTracker_end_run_silent(tr, ctx, rs, state, fault) ==
    IF tr.run = NoRun
    THEN Ret(tr, ctx, rs, OK, "", 0, FALSE)
    ELSE LET e == ExperimentRun_end_run(rs, RunIdOf(tr.run), state, fault = 1)
         IN  Ret([tr EXCEPT !.run = NoRun], ctx, e.runs,
                 IF e.err = NotFound THEN OK ELSE e.err, "", 1, e.err = NotFound)

\* variant: the state given is not handed on, the run is ended as COMPLETE
ExperimentTracker_end_run_default_state(tr, ctx, rs, state, fault) ==
    LET msg == _validate_experiment_and_run(tr.experiment, tr.run, "end_run")
    IN  IF msg # ""
        THEN Ret(tr, ctx, rs, NotSet, msg, 0, FALSE)
        ELSE LET e == ExperimentRun_end_run(rs, RunIdOf(tr.run), COMPLETE,
                                            fault = 1)
             IN  Ret([tr EXCEPT !.run = NoRun], ctx, e.runs,
                     IF e.err = NotFound THEN OK ELSE e.err, "", 1,
                     e.err = NotFound)

ExperimentTracker_end_run(tr, ctx, rs, state, fault) ==
    LET msg == _validate_experiment_and_run(tr.experiment, tr.run, "end_run")
    IN  IF msg # ""
        THEN Ret(tr, ctx, rs, NotSet, msg, 0, FALSE)
        ELSE LET e == ExperimentRun_end_run(rs, RunIdOf(tr.run), state, fault = 1)
             IN  \* except NotFound: warn; finally: self._experiment_run = None
                 Ret([tr EXCEPT !.run = NoRun], ctx, e.runs,
                     IF e.err = NotFound THEN OK ELSE e.err, "", 1,
                     e.err = NotFound)

\* variant: the previous run is not ended
ImplicitEnd_skipped(tr, ctx, rs, fault) ==
    Ret(tr, ctx, rs, OK, "", 0, FALSE)

\* start_run, "if self._experiment_run: self.end_run()"
ImplicitEnd(tr, ctx, rs, fault) ==
    IF tr.run # NoRun
    THEN ExperimentTracker_end_run(tr, ctx, rs, COMPLETE, fault)
    ELSE Ret(tr, ctx, rs, OK, "", 0, FALSE)

\* variant: a missing run is created instead of reported
StartRunResume_creates(tr, ctx, rs, run_name, n, warned, fault) ==
    LET new == [run_name |-> run_name, experiment |-> tr.experiment]
        made == ExperimentRun_create(rs, RunIdOf(new), fault = n + 1)
        upd == ExperimentRun_update_state(made.runs, RunIdOf(new), RUNNING,
                                          fault = n + 2)
    IN  IF made.err # OK
        THEN Ret(tr, ctx, made.runs, made.err, "", n + 1, warned)
        ELSE Ret([tr EXCEPT !.run = new], ctx, upd.runs, upd.err, "", n + 2,
                 warned)

\* variant: the run is looked up and bound, its state is not updated
StartRunResume_no_update(tr, ctx, rs, run_name, n, warned, fault) ==
    LET new == [run_name |-> run_name, experiment |-> tr.experiment]
        found == ExperimentRun_init(rs, RunIdOf(new), fault = n + 1)
    IN  IF found.err # OK
        THEN Ret(tr, ctx, found.runs, found.err, "", n + 1, warned)
        ELSE Ret([tr EXCEPT !.run = new], ctx, found.runs, OK, "", n + 1, warned)

\* start_run, the "if resume:" branch, entered after n remote calls: the run
\* is looked up and bound, then set to RUNNING
StartRunResume(tr, ctx, rs, run_name, n, warned, fault) ==
    LET new == [run_name |-> run_name, experiment |-> tr.experiment]
        found == ExperimentRun_init(rs, RunIdOf(new), fault = n + 1)
        upd == ExperimentRun_update_state(found.runs, RunIdOf(new), RUNNING,
                                          fault = n + 2)
    IN  IF found.err # OK
        THEN Ret(tr, ctx, found.runs, found.err, "", n + 1, warned)
        ELSE Ret([tr EXCEPT !.run = new], ctx, upd.runs, upd.err, "", n + 2,
                 warned)

\* variant: a create that fails is issued a second time
StartRunCreate_retries(tr, ctx, rs, run_name, n, warned, fault) ==
    LET new == [run_name |-> run_name, experiment |-> tr.experiment]
        made == ExperimentRun_create(rs, RunIdOf(new), fault = n + 1)
        again == ExperimentRun_create(made.runs, RunIdOf(new), FALSE)
    IN  IF made.err # OK
        THEN Ret([tr EXCEPT !.run = new], ctx, again.runs, OK, "", n + 2, warned)
        ELSE Ret([tr EXCEPT !.run = new], ctx, made.runs, OK, "", n + 1, warned)

\* start_run, the "else:" branch: the run is created and bound
StartRunCreate(tr, ctx, rs, run_name, n, warned, fault) ==
    LET new == [run_name |-> run_name, experiment |-> tr.experiment]
        made == ExperimentRun_create(rs, RunIdOf(new), fault = n + 1)
    IN  IF made.err # OK
        THEN Ret(tr, ctx, made.runs, made.err, "", n + 1, warned)
        ELSE Ret([tr EXCEPT !.run = new], ctx, made.runs, OK, "", n + 1, warned)

StartRunNotSetMessage ==
    "No experiment set for this run. Make sure to call "
    \o "aiplatform.init(experiment='my-experiment') before invoking start_run. "

\* variant: the experiment is checked when a run is created, not when one is
\* resumed
ExperimentTracker_start_run_resume_unchecked(tr, ctx, rs, run_name, resume, fault) ==
    IF tr.experiment = None
    THEN IF resume
         THEN Ret(tr, ctx, rs, NotFound, "", 1, FALSE)
         ELSE Ret(tr, ctx, rs, NotSet, StartRunNotSetMessage, 0, FALSE)
    ELSE LET ended == ImplicitEnd(tr, ctx, rs, fault)
         IN  IF ended.result # OK
             THEN ended
             ELSE IF resume
             THEN StartRunResume(ended.tracker, ctx, ended.runs, run_name,
                                 ended.calls, ended.warned, fault)
             ELSE StartRunCreate(ended.tracker, ctx, ended.runs, run_name,
                                 ended.calls, ended.warned, fault)

ExperimentTracker_start_run(tr, ctx, rs, run_name, resume, fault) ==
    IF tr.experiment = None
    THEN Ret(tr, ctx, rs, NotSet, StartRunNotSetMessage, 0, FALSE)
    ELSE LET ended == ImplicitEnd(tr, ctx, rs, fault)
         IN  IF ended.result # OK
             THEN ended
             ELSE IF resume
             THEN StartRunResume(ended.tracker, ctx, ended.runs, run_name,
                                 ended.calls, ended.warned, fault)
             ELSE StartRunCreate(ended.tracker, ctx, ended.runs, run_name,
                                 ended.calls, ended.warned, fault)

ExperimentTracker_log_params(tr, ctx, rs, fault) ==
    LET msg == _validate_experiment_and_run(tr.experiment, tr.run, "log_params")
    IN  IF msg # ""
        THEN Ret(tr, ctx, rs, NotSet, msg, 0, FALSE)
        ELSE LET l == ExperimentRun_log(rs, RunIdOf(tr.run), fault)
             IN  Ret(tr, ctx, rs, l.err, "", l.calls, FALSE)

ExperimentTracker_log_metrics(tr, ctx, rs, fault) ==
    LET msg == _validate_experiment_and_run(tr.experiment, tr.run, "log_metrics")
    IN  IF msg # ""
        THEN Ret(tr, ctx, rs, NotSet, msg, 0, FALSE)
        ELSE LET l == ExperimentRun_log(rs, RunIdOf(tr.run), fault)
             IN  Ret(tr, ctx, rs, l.err, "", l.calls, FALSE)

(***************************************************************************)
(* LangchainAgent and the process-wide configuration it reads and sets.    *)
(* fault picks the constructor or call that raises: 1 ChatVertexAI, 2      *)
(* AgentExecutor or RunnableWithMessageHistory, 3 the invoke of the        *)
(* runnable; 0 for none.                                                   *)
(***************************************************************************)
\* "if x:" on an optional string
Truthy(x) == x # None /\ x # ""

LLM == "llm"                \* a ChatVertexAI object
RUNNABLE == "runnable"      \* an AgentExecutor, with or without history
SET_UP == "set_up"          \* a step of a call: set_up has run
INVOKE == "invoke"          \* a step of a call: the runnable was invoked

\* the configuration the process starts with
DefaultConfig == [project |-> "p1", location |-> "us"]

\* vertexai.init(project=..., location=...): an argument that is given
\* replaces the value held
VertexaiInit(gc, project, location) ==
    [project |-> IF Truthy(project) THEN project ELSE gc.project,
     location |-> IF Truthy(location) THEN location ELSE gc.location]

\* what a call of the agent leaves: the agent, the configuration, what the
\* caller observes
ARet(ag, gc, result) == [agent |-> ag, global_config |-> gc, result |-> result]

\* LangchainAgent.__init__; steps: the steps of the last call, lazy: the
\* number of times query has set the agent up
LangchainAgent_init(gc) ==
    [project |-> gc.project, location |-> gc.location, llm |-> None,
     runnable |-> None, steps |-> <<>>, lazy |-> 0]

\* LangchainAgent.set_up
LangchainAgent_set_up(ag, gc, fault) ==
    LET current == gc
        \* vertexai.init(project=self._project, location=self._location)
        own == VertexaiInit(gc, ag.project, ag.location)
        \* vertexai.init(project=current_project, location=current_location)
        back == VertexaiInit(own, current.project, current.location)
        ag0 == [ag EXCEPT !.steps = Append(ag.steps, SET_UP)]
        ag1 == [ag0 EXCEPT !.llm = LLM]
    IN  IF fault = 1        \* ChatVertexAI(...) raises
        THEN ARet(ag0, own, RemoteError)
        ELSE IF fault = 2   \* AgentExecutor(...) raises
        THEN ARet(ag1, back, RemoteError)
        ELSE ARet([ag1 EXCEPT !.runnable = RUNNABLE], back, OK)

\* self._runnable.invoke(input=input, config=config, **kwargs)
Invoke(ag, gc, fault) ==
    ARet([ag EXCEPT !.steps = Append(ag.steps, INVOKE)], gc,
         IF fault = 3 THEN RemoteError ELSE OK)

\* variant: query sets the agent up every time
LangchainAgent_query_eager(ag, gc, fault) ==
    LET s == LangchainAgent_set_up([ag EXCEPT !.steps = <<>>], gc, fault)
    IN  IF s.result # OK
        THEN s
        ELSE Invoke([s.agent EXCEPT !.lazy = IF ag.lazy < 2 THEN ag.lazy + 1
                                             ELSE ag.lazy],
                    s.global_config, fault)

\* LangchainAgent.query
LangchainAgent_query(ag, gc, fault) ==
    LET ag0 == [ag EXCEPT !.steps = <<>>]
    IN  IF ag.runnable = None       \* "if not self._runnable:"
        THEN LET s == LangchainAgent_set_up(ag0, gc, fault)
             IN  IF s.result # OK
                 THEN s
                 ELSE Invoke([s.agent EXCEPT !.lazy = ag.lazy + 1],
                             s.global_config, fault)
        ELSE Invoke(ag0, gc, fault)

(***************************************************************************)
(* Actions of the tracker specification                                    *)
(***************************************************************************)
\* fault \in 0..n: which of the (at most n) remote calls of the operation
\* answers with a transient error, 0 for none
Apply(op, arg, resume, r) ==
    /\ tracker' = r.tracker
    /\ contexts' = r.contexts
    /\ runs' = r.runs
    /\ last' = Outcome(op, arg, resume, r.result, r.message, r.calls, r.warned,
                       tracker.run)
    /\ UNCHANGED <<nExternal, service, store, table, inflight, journal, threads,
                   agent, global_config>>

Reset ==
    Apply("reset", None, FALSE,
          Ret(ExperimentTracker_reset(tracker), contexts, runs, OK, "", 0, FALSE))

SetExperiment ==
    \E experiment \in ExperimentNames, fault \in 0..1 :
        Apply("set_experiment", experiment, FALSE,
              ExperimentTracker_set_experiment(tracker, contexts, runs, experiment,
                                               fault))

StartRun ==
    \E run_name \in RunNames, resume \in BOOLEAN, fault \in 0..3 :
        Apply("start_run", run_name, resume,
              ExperimentTracker_start_run(tracker, contexts, runs, run_name,
                                          resume, fault))

EndRun ==
    \E state \in TerminalStates, fault \in 0..1 :
        Apply("end_run", state, FALSE,
              ExperimentTracker_end_run(tracker, contexts, runs, state, fault))

LogParams ==
    \E fault \in 0..2 :
        Apply("log_params", None, FALSE,
              ExperimentTracker_log_params(tracker, contexts, runs, fault))

LogMetrics ==
    \E fault \in 0..2 :
        Apply("log_metrics", None, FALSE,
              ExperimentTracker_log_metrics(tracker, contexts, runs, fault))

\* the external writer deletes a run from the remote store
ExternalDeleteRun ==
    /\ nExternal < MaxExternal
    /\ \E id \in RunIds :
        /\ runs[id] # ABSENT
        /\ runs' = [runs EXCEPT ![id] = ABSENT]
    /\ nExternal' = nExternal + 1
    /\ last' = Outcome("external", None, FALSE, OK, "", 0, FALSE, tracker.run)
    /\ UNCHANGED <<tracker, contexts, service, store, table, inflight, journal, threads,
                   agent, global_config>>

\* the external writer creates a context of another kind under a free name
ExternalCreateContext ==
    /\ nExternal < MaxExternal
    /\ \E name \in ExperimentNames :
        /\ contexts[name] = ABSENT
        /\ contexts' = [contexts EXCEPT ![name] = SYSTEM_PIPELINE]
    /\ nExternal' = nExternal + 1
    /\ last' = Outcome("external", None, FALSE, OK, "", 0, FALSE, tracker.run)
    /\ UNCHANGED <<tracker, runs, service, store, table, inflight, journal, threads,
                   agent, global_config>>

(***************************************************************************)
(* The legacy _MetadataService and its remote store.                       *)
(***************************************************************************)
LegacyRunNames == {"r1"}
LegacyRunIds == {RunId(e, r) : e \in ExperimentNames, r \in LegacyRunNames}
Descriptions == {None, "d1"}

SYSTEM_RUN == "system.Run"
SYSTEM_METRICS == "system.Metrics"
SYSTEM_CONTAINER_EXECUTION == "system.ContainerExecution"
SYSTEM_MODEL == "system.Model"

InvalidMetricType == "InvalidMetricType"   \* TypeError of _validate_metrics_value_type
InvalidResource == "InvalidResource"       \* ValueError: not a valid experiment name
AttributeError == "AttributeError"         \* attribute access on None

\* f"{self._experiment.name}-{run}-metrics"
MetricsId(experiment, run_name) == experiment \o "-" \o run_name \o "-metrics"
MetricsIds == {MetricsId(e, r) : e \in ExperimentNames, r \in LegacyRunNames}

\* a Python value: its type and its text
Val(type, repr) == [type |-> type, repr |-> repr]
\* a mapping as it is passed: the sequence of its items
Item(key, value) == [key |-> key, value |-> value]

MetricsInputs ==
    { <<Item("a", Val("int", "1"))>>,
      <<Item("a", Val("float", "0.9")), Item("b", Val("int", "2"))>>,
      <<Item("a", Val("str", "x"))>>,
      <<Item("b", Val("int", "1")), Item("a", Val("str", "x"))>> }

ParamsInputs ==
    { <<Item("lr", Val("float", "0.1"))>>,
      <<Item("lr", Val("str", "s"))>> }

EmptyDict == [k \in {} |-> None]

\* the mapping with the items of a sequence, a later item replacing an earlier
DictOf(items) ==
    [k \in {items[i].key : i \in 1..Len(items)} |->
        LET i == CHOOSE i \in 1..Len(items) :
                    /\ items[i].key = k
                    /\ \A j \in (i + 1)..Len(items) : items[j].key # k
        IN  items[i].value]

\* metadata.update(new): new keys are added, present keys overwritten
Merge(old, new) ==
    [k \in DOMAIN old \cup DOMAIN new |->
        IF k \in DOMAIN new THEN new[k] ELSE old[k]]

NoResource ==
    [schema_title |-> ABSENT, display_name |-> None, description |-> None,
     metadata |-> EmptyDict]

\* a resource as created with a display name
NamedResource(schema_title, display_name, description) ==
    [schema_title |-> schema_title, display_name |-> display_name,
     description |-> description, metadata |-> EmptyDict]

\* a resource as created with no display name given
Resource(schema_title, description) ==
    NamedResource(schema_title, None, description)

\* <Resource>.get_or_create(resource_id, ..., schema_title, ...): the resource
\* under the id, created when there is none
GetOrCreate(collection, id, schema_title, description) ==
    IF collection[id].schema_title = ABSENT
    THEN [collection EXCEPT ![id] = Resource(schema_title, description)]
    ELSE collection

\* <Resource>.get_or_create(resource_id, display_name, ..., schema_title, ...)
GetOrCreateNamed(collection, id, schema_title, display_name, description) ==
    IF collection[id].schema_title = ABSENT
    THEN [collection EXCEPT
            ![id] = NamedResource(schema_title, display_name, description)]
    ELSE collection

\* <Resource>.update(metadata, description)
Update(collection, id, metadata, description) ==
    [collection EXCEPT ![id] =
        [schema_title |-> @.schema_title,
         display_name |-> @.display_name,
         description |-> IF description # None THEN description ELSE @.description,
         metadata |-> Merge(@.metadata, metadata)]]

NoService == [experiment |-> None, run |-> None, metrics |-> None]

\* a log_params / log_metrics call: its target and the copy of it fetched,
\* the remote calls issued so far (trace), the external writes to the target
\* made since the fetch (since), and where the call stands (pc)
FETCHED == "fetched"      \* the call has fetched its resource
DONE == "done"            \* the call has returned

InFlight(op, items, target, fetched, trace, since, pc) ==
    [op |-> op, arg |-> items, target |-> target, fetched |-> fetched,
     trace |-> trace, since |-> since, pc |-> pc]

NoCall == InFlight(None, <<>>, None, NoResource, <<>>, <<>>, DONE)

\* the last operation returned no table
NoTable == EmptyDict

\* the runs started so far, by <<experiment, run name>>, each with the
\* mappings logged on it, and the one that is active
NoJournal == [active |-> <<>>, runs |-> EmptyDict]

\* a thread that calls the tracker: the statement it stands at (pc), the call
\* it is in and its arguments, whether its end_run was called by start_run
\* (nested), the object it holds in a local (held), the exception in flight
\* while "finally" runs (pending), and what its last call raised (result)
IDLE == "idle"
Threads == {1, 2}

Thread(pc, op, run_name, resume, state, nested, held, pending, result) ==
    [pc |-> pc, op |-> op, run_name |-> run_name, resume |-> resume,
     state |-> state, nested |-> nested, held |-> held, pending |-> pending,
     result |-> result]

\* a thread outside any call, its last call having raised result
Returned(op, result) ==
    Thread(IDLE, op, None, FALSE, None, FALSE, NoRun, OK, result)

\* no thread has called yet; overlapped: a thread has taken a step while
\* another was inside a call
NoThreads == [of |-> [t \in Threads |-> Returned(None, OK)], overlapped |-> FALSE]

LRet(sv, st, result, message, calls) ==
    [service |-> sv, store |-> st, result |-> result, message |-> message,
     calls |-> calls]

MetadataService_reset(sv) == NoService

\* variant: one message for both cases
MetadataService_validate_experiment_and_run_one_message(sv, method_name) ==
    IF sv.experiment = None \/ sv.run = None
    THEN "No run set. Make sure to call aiplatform.start_run('my-run') before trying to "
         \o method_name \o ". "
    ELSE ""

\* _MetadataService._validate_experiment_and_run: the message raised, or ""
MetadataService_validate_experiment_and_run(sv, method_name) ==
    IF sv.experiment = None
    THEN "No experiment set. Make sure to call aiplatform.init(experiment='my-experiment') "
         \o "before trying to " \o method_name \o ". "
    ELSE IF sv.run = None
    THEN "No run set. Make sure to call aiplatform.start_run('my-run') before trying to "
         \o method_name \o ". "
    ELSE ""

\* isinstance(value, int) or isinstance(value, float); bool is a subclass of int
IsIntOrFloat(value) == value.type \in {"int", "bool", "float"}

\* _MetadataService._validate_metrics_value_type: the message of the TypeError
\* raised at the first item whose value is of an unsupported type, or ""
RECURSIVE _validate_metrics_value_type(_)
_validate_metrics_value_type(metrics) ==
    IF metrics = <<>> THEN ""
    ELSE IF IsIntOrFloat(Head(metrics).value)
    THEN _validate_metrics_value_type(Tail(metrics))
    ELSE "metrics contain unsupported value types. key: " \o Head(metrics).key
         \o "; value: " \o Head(metrics).value.repr
         \o "; type: <class '" \o Head(metrics).value.type \o "'>"

SchemaConflictMessage(kind, name, schema_title) ==
    kind \o " name " \o name \o " has been used to create other type of resources ("
    \o schema_title \o ") in this MetadataStore, please choose a different "
    \o (IF kind = "Experiment" THEN "experiment" ELSE "run") \o " name."

\* variant: the schema title of the context found is not compared
MetadataService_set_experiment_unchecked(sv, st, experiment, description, fault) ==
    IF fault = 1
    THEN LRet(sv, st, RemoteError, "", 1)
    ELSE IF fault = 2
    THEN LRet(MetadataService_reset(sv), st, RemoteError, "", 2)
    ELSE
    LET cs == GetOrCreateNamed(st.contexts, experiment, SYSTEM_EXPERIMENT,
                               experiment, description)
        st1 == [st EXCEPT !.contexts = cs]
    IN  IF description # None /\ description # ""
           /\ cs[experiment].description # description
        THEN IF fault = 3
             THEN LRet(MetadataService_reset(sv), st1, RemoteError, "", 3)
             ELSE LRet([MetadataService_reset(sv) EXCEPT !.experiment = experiment],
                       [st1 EXCEPT !.contexts =
                           Update(cs, experiment, cs[experiment].metadata,
                                  description)],
                       OK, "", 3)
        ELSE LRet([MetadataService_reset(sv) EXCEPT !.experiment = experiment],
                  st1, OK, "", 2)

AlreadyExists == "AlreadyExists"    \* a create under an id that is taken

\* variant: the context is created, not fetched when it exists
MetadataService_set_experiment_creates(sv, st, experiment, description, fault) ==
    IF fault = 1
    THEN LRet(sv, st, RemoteError, "", 1)
    ELSE IF fault = 2
    THEN LRet(MetadataService_reset(sv), st, RemoteError, "", 2)
    ELSE IF st.contexts[experiment].schema_title # ABSENT
    THEN LRet(MetadataService_reset(sv), st, AlreadyExists, "", 2)
    ELSE LRet([MetadataService_reset(sv) EXCEPT !.experiment = experiment],
              [st EXCEPT !.contexts[experiment] =
                  NamedResource(SYSTEM_EXPERIMENT, experiment, description)],
              OK, "", 2)

MetadataService_set_experiment(sv, st, experiment, description, fault) ==
    IF fault = 1        \* metadata_store._MetadataStore.get_or_create()
    THEN LRet(sv, st, RemoteError, "", 1)
    ELSE IF fault = 2   \* context._Context.get_or_create(...)
    THEN LRet(MetadataService_reset(sv), st, RemoteError, "", 2)
    ELSE
    LET cs == GetOrCreateNamed(st.contexts, experiment, SYSTEM_EXPERIMENT,
                               experiment, description)
        st1 == [st EXCEPT !.contexts = cs]
    IN  IF cs[experiment].schema_title # SYSTEM_EXPERIMENT
        THEN LRet(MetadataService_reset(sv), st1, SchemaConflict,
                  SchemaConflictMessage("Experiment", experiment,
                                        cs[experiment].schema_title), 2)
        ELSE IF description # None /\ description # ""
                /\ cs[experiment].description # description
        THEN IF fault = 3
             THEN LRet(MetadataService_reset(sv), st1, RemoteError, "", 3)
             ELSE LRet([MetadataService_reset(sv) EXCEPT !.experiment = experiment],
                       [st1 EXCEPT !.contexts =
                           Update(cs, experiment, cs[experiment].metadata,
                                  description)],
                       OK, "", 3)
        ELSE LRet([MetadataService_reset(sv) EXCEPT !.experiment = experiment],
                  st1, OK, "", 2)

LegacyStartRunNotSetMessage ==
    "No experiment set for this run. Make sure to call "
    \o "aiplatform.init(experiment='my-experiment') before trying to start_run. "

\* variant: self._run is assigned as soon as the execution is fetched, before
\* the metrics artifact is
MetadataService_start_run_binds_early(sv, st, run, fault) ==
    IF sv.experiment = None
    THEN LRet(sv, st, NotSet, LegacyStartRunNotSetMessage, 0)
    ELSE
    LET id == RunId(sv.experiment, run)
        mid == MetricsId(sv.experiment, run)
        st1 == [st EXCEPT !.executions =
                    GetOrCreateNamed(@, id, SYSTEM_RUN, run, None)]
        st2 == [st1 EXCEPT !.links = @ \cup {<<sv.experiment, id>>}]
        st3 == [st2 EXCEPT !.artifacts =
                    GetOrCreateNamed(@, mid, SYSTEM_METRICS, mid, None)]
        st4 == [st3 EXCEPT !.events = @ \cup {<<id, mid>>}]
        sv1 == [sv EXCEPT !.run = id]
    IN  IF fault = 1 THEN LRet(sv, st, RemoteError, "", 1)
        ELSE IF st1.executions[id].schema_title # SYSTEM_RUN
        THEN LRet(sv, st1, SchemaConflict,
                  SchemaConflictMessage("Run", run, st1.executions[id].schema_title),
                  1)
        ELSE IF fault = 2 THEN LRet(sv1, st1, RemoteError, "", 2)
        ELSE IF fault = 3 THEN LRet(sv1, st2, RemoteError, "", 3)
        ELSE IF st3.artifacts[mid].schema_title # SYSTEM_METRICS
        THEN LRet(sv1, st3, SchemaConflict,
                  SchemaConflictMessage("Run", run, st3.artifacts[mid].schema_title),
                  3)
        ELSE IF fault = 4 THEN LRet(sv1, st3, RemoteError, "", 4)
        ELSE LRet([sv EXCEPT !.run = id, !.metrics = mid], st4, OK, "", 4)

MetadataService_start_run(sv, st, run, fault) ==
    IF sv.experiment = None
    THEN LRet(sv, st, NotSet, LegacyStartRunNotSetMessage, 0)
    ELSE
    LET id == RunId(sv.experiment, run)
        mid == MetricsId(sv.experiment, run)
        st1 == [st EXCEPT !.executions =
                    GetOrCreateNamed(@, id, SYSTEM_RUN, run, None)]
        st2 == [st1 EXCEPT !.links = @ \cup {<<sv.experiment, id>>}]
        st3 == [st2 EXCEPT !.artifacts =
                    GetOrCreateNamed(@, mid, SYSTEM_METRICS, mid, None)]
        st4 == [st3 EXCEPT !.events = @ \cup {<<id, mid>>}]
    IN  IF fault = 1 THEN LRet(sv, st, RemoteError, "", 1)
        ELSE IF st1.executions[id].schema_title # SYSTEM_RUN
        THEN LRet(sv, st1, SchemaConflict,
                  SchemaConflictMessage("Run", run, st1.executions[id].schema_title),
                  1)
        ELSE IF fault = 2 THEN LRet(sv, st1, RemoteError, "", 2)
        ELSE IF fault = 3 THEN LRet(sv, st2, RemoteError, "", 3)
        ELSE IF st3.artifacts[mid].schema_title # SYSTEM_METRICS
        THEN LRet(sv, st3, SchemaConflict,
                  SchemaConflictMessage("Run", run, st3.artifacts[mid].schema_title),
                  3)
        ELSE IF fault = 4 THEN LRet(sv, st3, RemoteError, "", 4)
        ELSE LRet([sv EXCEPT !.run = id, !.metrics = mid], st4, OK, "", 4)

MetadataService_log_params(sv, st, params, fault) ==
    LET msg == MetadataService_validate_experiment_and_run(sv, "log_params")
    IN  IF msg # "" THEN LRet(sv, st, NotSet, msg, 0)
        ELSE IF fault = 1 THEN LRet(sv, st, RemoteError, "", 1)
        ELSE
        LET st1 == [st EXCEPT !.executions = GetOrCreate(@, sv.run, SYSTEM_RUN, None)]
        IN  IF fault = 2 THEN LRet(sv, st1, RemoteError, "", 2)
            ELSE LRet(sv, [st1 EXCEPT !.executions =
                               Update(@, sv.run, DictOf(params), None)],
                      OK, "", 2)

\* variant: the value types are not validated
MetadataService_log_metrics_unvalidated(sv, st, metrics, fault) ==
    LET msg == MetadataService_validate_experiment_and_run(sv, "log_metrics")
    IN  IF msg # "" THEN LRet(sv, st, NotSet, msg, 0)
        ELSE IF fault = 1 THEN LRet(sv, st, RemoteError, "", 1)
        ELSE
        LET st1 == [st EXCEPT !.artifacts =
                        GetOrCreate(@, sv.metrics, SYSTEM_METRICS, None)]
        IN  IF fault = 2 THEN LRet(sv, st1, RemoteError, "", 2)
            ELSE LRet(sv, [st1 EXCEPT !.artifacts =
                               Update(@, sv.metrics, DictOf(metrics), None)],
                      OK, "", 2)

\* variant: the value types are validated after the artifact is fetched
MetadataService_log_metrics_validates_late(sv, st, metrics, fault) ==
    LET msg == MetadataService_validate_experiment_and_run(sv, "log_metrics")
        bad == _validate_metrics_value_type(metrics)
    IN  IF msg # "" THEN LRet(sv, st, NotSet, msg, 0)
        ELSE IF fault = 1 THEN LRet(sv, st, RemoteError, "", 1)
        ELSE
        LET st1 == [st EXCEPT !.artifacts =
                        GetOrCreate(@, sv.metrics, SYSTEM_METRICS, None)]
        IN  IF bad # "" THEN LRet(sv, st1, InvalidMetricType, bad, 1)
            ELSE IF fault = 2 THEN LRet(sv, st1, RemoteError, "", 2)
            ELSE LRet(sv, [st1 EXCEPT !.artifacts =
                               Update(@, sv.metrics, DictOf(metrics), None)],
                      OK, "", 2)

\* variant: the mapping logged replaces the mapping stored
MetadataService_log_metrics_replaces(sv, st, metrics, fault) ==
    LET msg == MetadataService_validate_experiment_and_run(sv, "log_metrics")
        bad == _validate_metrics_value_type(metrics)
    IN  IF msg # "" THEN LRet(sv, st, NotSet, msg, 0)
        ELSE IF bad # "" THEN LRet(sv, st, InvalidMetricType, bad, 0)
        ELSE IF fault = 1 THEN LRet(sv, st, RemoteError, "", 1)
        ELSE
        LET st1 == [st EXCEPT !.artifacts =
                        GetOrCreate(@, sv.metrics, SYSTEM_METRICS, None)]
        IN  IF fault = 2 THEN LRet(sv, st1, RemoteError, "", 2)
            ELSE LRet(sv, [st1 EXCEPT !.artifacts[sv.metrics].metadata =
                               DictOf(metrics)],
                      OK, "", 2)

MetadataService_log_metrics(sv, st, metrics, fault) ==
    LET msg == MetadataService_validate_experiment_and_run(sv, "log_metrics")
        bad == _validate_metrics_value_type(metrics)
    IN  IF msg # "" THEN LRet(sv, st, NotSet, msg, 0)
        ELSE IF bad # "" THEN LRet(sv, st, InvalidMetricType, bad, 0)
        ELSE IF fault = 1 THEN LRet(sv, st, RemoteError, "", 1)
        ELSE
        LET st1 == [st EXCEPT !.artifacts =
                        GetOrCreate(@, sv.metrics, SYSTEM_METRICS, None)]
        IN  IF fault = 2 THEN LRet(sv, st1, RemoteError, "", 2)
            ELSE LRet(sv, [st1 EXCEPT !.artifacts =
                               Update(@, sv.metrics, DictOf(metrics), None)],
                      OK, "", 2)

\* variant: the schema title of the context found is not compared
_get_experiment_or_pipeline_resource_name_unchecked(st, name, source, expected_schema, fault) ==
    IF fault = 1 THEN [err |-> RemoteError, message |-> ""]
    ELSE IF st.contexts[name].schema_title = ABSENT
    THEN [err |-> NotFound, message |-> ""]
    ELSE [err |-> OK, message |-> ""]

\* _MetadataService._get_experiment_or_pipeline_resource_name, with the remote
\* get of context._Context(resource_name=name) as its one remote call
_get_experiment_or_pipeline_resource_name(st, name, source, expected_schema, fault) ==
    IF fault = 1 THEN [err |-> RemoteError, message |-> ""]
    ELSE IF st.contexts[name].schema_title = ABSENT
    THEN [err |-> NotFound, message |-> ""]
    ELSE IF st.contexts[name].schema_title # expected_schema
    THEN [err |-> InvalidResource,
          message |-> "Please provide a valid " \o source \o " name. " \o name
                      \o " is not a " \o source \o "."]
    ELSE [err |-> OK, message |-> ""]

\* executions a query of the runs in a context lists
RunsInContext(st, name) ==
    {id \in DOMAIN st.executions :
        st.executions[id].schema_title = SYSTEM_RUN /\ <<name, id>> \in st.links}

\* _MetadataService.get_experiment_df and _query_runs_to_data_frame: the remote
\* calls issued and the error raised; experiment = None when none is given
MetadataService_get_experiment_df(sv, st, experiment, fault) ==
    IF experiment = None /\ sv.experiment = None
    THEN LRet(sv, st, AttributeError, "", 0)
    ELSE
    LET name == IF experiment = None THEN sv.experiment ELSE experiment
        n == IF experiment = None THEN 0 ELSE 1
        got == IF experiment = None
               THEN [err |-> OK, message |-> ""]
               ELSE _get_experiment_or_pipeline_resource_name(
                        st, name, "experiment", SYSTEM_EXPERIMENT, fault)
        listed == Cardinality(RunsInContext(st, name))
    IN  IF got.err # OK THEN LRet(sv, st, got.err, got.message, 1)
        ELSE IF fault > n /\ fault <= n + 1 + listed
        THEN LRet(sv, st, RemoteError, "", fault)
        ELSE LRet(sv, st, OK, "", n + 1 + listed)

(***************************************************************************)
(* Actions of the legacy service specification                             *)
(***************************************************************************)
LegacyApply(op, arg, r) ==
    /\ service' = r.service
    /\ store' = r.store
    /\ last' = Outcome(op, arg, FALSE, r.result, r.message, r.calls, FALSE, NoRun)
    /\ UNCHANGED <<tracker, contexts, runs, nExternal, table, inflight, journal, threads,
                   agent, global_config>>

LegacyReset ==
    LegacyApply("reset", None, LRet(MetadataService_reset(service), store, OK, "", 0))

LegacySetExperiment ==
    \E experiment \in ExperimentNames, description \in Descriptions, fault \in 0..3 :
        LegacyApply("set_experiment", experiment,
                    MetadataService_set_experiment(service, store, experiment,
                                                   description, fault))

LegacyStartRun ==
    \E run \in LegacyRunNames, fault \in 0..4 :
        LegacyApply("start_run", run,
                    MetadataService_start_run(service, store, run, fault))

LegacyLogParams ==
    \E params \in ParamsInputs, fault \in 0..2 :
        LegacyApply("log_params", params,
                    MetadataService_log_params(service, store, params, fault))

LegacyLogMetrics ==
    \E metrics \in MetricsInputs, fault \in 0..2 :
        LegacyApply("log_metrics", metrics,
                    MetadataService_log_metrics(service, store, metrics, fault))

LegacyGetExperimentDf ==
    \E experiment \in ExperimentNames \cup {None}, fault \in 0..2 :
        LegacyApply("get_experiment_df", experiment,
                    MetadataService_get_experiment_df(service, store, experiment,
                                                      fault))

\* the external writer puts a resource of another kind under a free id
ExternalCreateForeign ==
    /\ nExternal < MaxExternal
    /\ \/ \E name \in ExperimentNames :
            /\ store.contexts[name].schema_title = ABSENT
            /\ store' = [store EXCEPT !.contexts[name] =
                            Resource(SYSTEM_PIPELINE, None)]
       \/ \E id \in LegacyRunIds :
            /\ store.executions[id].schema_title = ABSENT
            /\ store' = [store EXCEPT !.executions[id] =
                            Resource(SYSTEM_CONTAINER_EXECUTION, None)]
       \/ \E mid \in MetricsIds :
            /\ store.artifacts[mid].schema_title = ABSENT
            /\ store' = [store EXCEPT !.artifacts[mid] =
                            Resource(SYSTEM_MODEL, None)]
    /\ nExternal' = nExternal + 1
    /\ last' = Outcome("external", None, FALSE, OK, "", 0, FALSE, NoRun)
    /\ UNCHANGED <<tracker, contexts, runs, service, table, inflight, journal, threads,
                   agent, global_config>>

Init ==
    /\ tracker = [experiment |-> None, run |-> NoRun]
    /\ contexts = [name \in ExperimentNames |-> ABSENT]
    /\ runs = [id \in RunIds |-> ABSENT]
    /\ last = NoOutcome
    /\ nExternal = 0
    /\ service = NoService
    /\ store = [contexts |-> [name \in ExperimentNames |-> NoResource],
                executions |-> [id \in LegacyRunIds |-> NoResource],
                artifacts |-> [mid \in MetricsIds |-> NoResource],
                links |-> {},
                events |-> {},
                inputs |-> {}]
    /\ table = NoTable
    /\ inflight = NoCall
    /\ journal = NoJournal
    /\ threads = NoThreads
    /\ agent = LangchainAgent_init(DefaultConfig)
    /\ global_config = DefaultConfig

Next ==
    \/ Reset
    \/ SetExperiment
    \/ StartRun
    \/ EndRun
    \/ LogParams
    \/ LogMetrics
    \/ ExternalDeleteRun
    \/ ExternalCreateContext

Spec == Init /\ [][Next]_vars

LegacyNext ==
    \/ LegacyReset
    \/ LegacySetExperiment
    \/ LegacyStartRun
    \/ LegacyLogParams
    \/ LegacyLogMetrics
    \/ LegacyGetExperimentDf
    \/ ExternalCreateForeign

LegacySpec == Init /\ [][LegacyNext]_vars

(***************************************************************************)
(* A session that sets experiments, with every kind of description, starts *)
(* runs and queries the table, and logs nothing.                           *)
(***************************************************************************)
SessionDescriptions == {None, "", "d1", "d2"}

\* the arguments of a set_experiment call
SetExperimentArgs(experiment, description) ==
    [experiment |-> experiment, description |-> description]

SessionReset == LegacyReset

SessionSetExperiment ==
    \E experiment \in ExperimentNames, description \in SessionDescriptions,
       fault \in 0..3 :
        LegacyApply("set_experiment", SetExperimentArgs(experiment, description),
                    MetadataService_set_experiment(service, store, experiment,
                                                   description, fault))

SessionStartRun == LegacyStartRun

SessionGetExperimentDf == LegacyGetExperimentDf

SessionExternalCreateForeign == ExternalCreateForeign

SessionNext ==
    \/ SessionReset
    \/ SessionSetExperiment
    \/ SessionStartRun
    \/ SessionGetExperimentDf
    \/ SessionExternalCreateForeign

SessionSpec == Init /\ [][SessionNext]_vars

(***************************************************************************)
(* The run contexts of the legacy service.  The store keeps, beside its    *)
(* resources, the links of a parent context to a child context in the      *)
(* order they were made (children), so that a link made twice shows.       *)
(***************************************************************************)
SYSTEM_EXPERIMENT_RUN == "system.ExperimentRun"

\* run_context.parent_contexts
ParentContexts(st, id) ==
    {st.children[i][1] : i \in {j \in 1..Len(st.children) : st.children[j][2] = id}}

\* self._experiment.add_context_children([run_context])
AddContextChildren(st, parent, id) ==
    [st EXCEPT !.children = Append(@, <<parent, id>>)]

\* variant: the link is made whatever the parents of the context found
MetadataService_create_experiment_run_context_always_links(sv, st, run, fault) ==
    IF sv.experiment = None
    THEN LRet(sv, st, AttributeError, "", 0)
    ELSE
    LET id == RunId(sv.experiment, run)
        st1 == [st EXCEPT !.contexts =
                    GetOrCreateNamed(@, id, SYSTEM_EXPERIMENT_RUN, run, None)]
        st2 == AddContextChildren(st1, sv.experiment, id)
    IN  IF fault = 1 THEN LRet(sv, st, RemoteError, "", 1)
        ELSE IF st1.contexts[id].schema_title # SYSTEM_EXPERIMENT_RUN
        THEN LRet(sv, st1, SchemaConflict,
                  SchemaConflictMessage("Run", run, st1.contexts[id].schema_title),
                  1)
        ELSE IF fault = 2 THEN LRet(sv, st1, RemoteError, "", 2)
        ELSE IF fault = 3 THEN LRet(sv, st2, RemoteError, "", 3)
        ELSE LRet(sv, st2, OK, "", 3)

\* _MetadataService._create_experiment_run_context: the context of the run is
\* fetched or created (call 1) and its schema checked; when the experiment is
\* not among its parents it is linked (call 2) and read again (call 3).  With
\* no experiment set, self._experiment.name raises AttributeError.
MetadataService_create_experiment_run_context(sv, st, run, fault) ==
    IF sv.experiment = None
    THEN LRet(sv, st, AttributeError, "", 0)
    ELSE
    LET id == RunId(sv.experiment, run)
        st1 == [st EXCEPT !.contexts =
                    GetOrCreateNamed(@, id, SYSTEM_EXPERIMENT_RUN, run, None)]
        st2 == AddContextChildren(st1, sv.experiment, id)
    IN  IF fault = 1 THEN LRet(sv, st, RemoteError, "", 1)
        ELSE IF st1.contexts[id].schema_title # SYSTEM_EXPERIMENT_RUN
        THEN LRet(sv, st1, SchemaConflict,
                  SchemaConflictMessage("Run", run, st1.contexts[id].schema_title),
                  1)
        ELSE IF sv.experiment \notin ParentContexts(st1, id)
        THEN IF fault = 2 THEN LRet(sv, st1, RemoteError, "", 2)
             ELSE IF fault = 3 THEN LRet(sv, st2, RemoteError, "", 3)
             ELSE LRet(sv, st2, OK, "", 3)
        ELSE LRet(sv, st1, OK, "", 1)

RunContextSetExperiment ==
    \E experiment \in ExperimentNames :
        LegacyApply("set_experiment", experiment,
                    MetadataService_set_experiment(service, store, experiment,
                                                   None, 0))

RunContextCreate ==
    \E run \in RunNames, fault \in 0..3 :
        LegacyApply("_create_experiment_run_context", run,
                    MetadataService_create_experiment_run_context(
                        service, store, run, fault))

\* the external writer puts a context of another kind under a free run id
RunContextExternalCreateForeign ==
    /\ nExternal < MaxExternal
    /\ \E id \in RunIds :
            /\ store.contexts[id].schema_title = ABSENT
            /\ store' = [store EXCEPT !.contexts[id] =
                            Resource(SYSTEM_PIPELINE, None)]
    /\ nExternal' = nExternal + 1
    /\ last' = Outcome("external", None, FALSE, OK, "", 0, FALSE, NoRun)
    /\ UNCHANGED <<tracker, contexts, runs, service, table, inflight, journal,
                   threads,
                   agent, global_config>>

RunContextInit ==
    /\ tracker = [experiment |-> None, run |-> NoRun]
    /\ contexts = [name \in ExperimentNames |-> ABSENT]
    /\ runs = [id \in RunIds |-> ABSENT]
    /\ last = NoOutcome
    /\ nExternal = 0
    /\ service = NoService
    /\ store = [contexts |-> [name \in ExperimentNames \cup RunIds |-> NoResource],
                executions |-> [id \in LegacyRunIds |-> NoResource],
                artifacts |-> [mid \in MetricsIds |-> NoResource],
                links |-> {},
                events |-> {},
                inputs |-> {},
                children |-> <<>>]
    /\ table = NoTable
    /\ inflight = NoCall
    /\ journal = NoJournal
    /\ threads = NoThreads
    /\ agent = LangchainAgent_init(DefaultConfig)
    /\ global_config = DefaultConfig

RunContextNext ==
    \/ RunContextSetExperiment
    \/ RunContextCreate
    \/ RunContextExternalCreateForeign

RunContextSpec == RunContextInit /\ [][RunContextNext]_vars

(***************************************************************************)
(* Logging on one run of one experiment, with mappings of every kind of    *)
(* value, no other writer to the store and no failing remote call.         *)
(***************************************************************************)
MetricKeys == {"a", "b"}
MetricValues ==
    { Val("int", "1"), Val("float", "0.9"), Val("bool", "True"),
      Val("str", "x"), Val("NoneType", "None"), Val("list", "[1]") }

ParamKeys == {"lr", "n"}
ParamValues == { Val("float", "0.1"), Val("str", "s") }

\* the mappings with keys among those given, each as the sequence of its
\* items, in every order of the items
Mappings(keys, values) ==
    UNION { { items \in [1..n -> {Item(k, v) : k \in keys, v \in values}] :
                \A i, j \in 1..n : i # j => items[i].key # items[j].key }
            : n \in 0..Cardinality(keys) }

LoggingSetExperiment ==
    LegacyApply("set_experiment", "e1",
                MetadataService_set_experiment(service, store, "e1", None, 0))

LoggingStartRun ==
    LegacyApply("start_run", "r1",
                MetadataService_start_run(service, store, "r1", 0))

LoggingLogParams ==
    \E params \in Mappings(ParamKeys, ParamValues) :
        LegacyApply("log_params", params,
                    MetadataService_log_params(service, store, params, 0))

LoggingLogMetrics ==
    \E metrics \in Mappings(MetricKeys, MetricValues) :
        LegacyApply("log_metrics", metrics,
                    MetadataService_log_metrics(service, store, metrics, 0))

LoggingNext ==
    \/ LoggingSetExperiment
    \/ LoggingStartRun
    \/ LoggingLogParams
    \/ LoggingLogMetrics

LoggingSpec == Init /\ [][LoggingNext]_vars

(***************************************************************************)
(* log_params and log_metrics beside an external writer.  The two remote   *)
(* calls of a log call are two steps, the re-fetch and the update, and the *)
(* external writer may write to the store between them.                    *)
(***************************************************************************)
\* the collection of the store that holds the target of a log call
TargetKind(op) == IF op = "log_params" THEN "executions" ELSE "artifacts"

\* execution.Execution.get_or_create / artifact.Artifact.get_or_create
FetchCall(op) ==
    IF op = "log_params" THEN "Execution.get_or_create" ELSE "Artifact.get_or_create"

\* run_execution.update / metric_artifact.update
UpdateCall(op) ==
    IF op = "log_params" THEN "Execution.update" ELSE "Artifact.update"

\* <fetched resource>.update(metadata): the mapping is merged into the copy
\* that was fetched, and the copy is written to the store
UpdateFetched(collection, id, fetched, metadata) ==
    [collection EXCEPT ![id] =
        [fetched EXCEPT !.metadata = Merge(fetched.metadata, metadata)]]

\* variant: the resource is not fetched again, the update is made on the
\* object start_run has bound (self._run, self._metrics)
MetadataService_log_fetch_skipped(sv, st, op, items) ==
    LET msg == MetadataService_validate_experiment_and_run(sv, op)
        bad == IF op = "log_metrics" THEN _validate_metrics_value_type(items)
               ELSE ""
        target == IF op = "log_params" THEN sv.run ELSE sv.metrics
    IN  IF msg # ""
        THEN [err |-> NotSet, message |-> msg, store |-> st, inflight |-> NoCall]
        ELSE IF bad # ""
        THEN [err |-> InvalidMetricType, message |-> bad, store |-> st,
              inflight |-> NoCall]
        ELSE [err |-> OK, message |-> "", store |-> st,
              inflight |-> InFlight(op, items, target,
                                    st[TargetKind(op)][target], <<>>, <<>>,
                                    FETCHED)]

\* log_params / log_metrics up to the re-fetch of the target: the validation,
\* then Execution.get_or_create (Artifact.get_or_create) by the id of the run
\* (of its metrics artifact)
MetadataService_log_fetch(sv, st, op, items) ==
    LET msg == MetadataService_validate_experiment_and_run(sv, op)
        bad == IF op = "log_metrics" THEN _validate_metrics_value_type(items)
               ELSE ""
        target == IF op = "log_params" THEN sv.run ELSE sv.metrics
        schema == IF op = "log_params" THEN SYSTEM_RUN ELSE SYSTEM_METRICS
        st1 == [st EXCEPT ![TargetKind(op)] = GetOrCreate(@, target, schema, None)]
    IN  IF msg # ""
        THEN [err |-> NotSet, message |-> msg, store |-> st, inflight |-> NoCall]
        ELSE IF bad # ""
        THEN [err |-> InvalidMetricType, message |-> bad, store |-> st,
              inflight |-> NoCall]
        ELSE [err |-> OK, message |-> "", store |-> st1,
              inflight |-> InFlight(op, items, target,
                                    st1[TargetKind(op)][target],
                                    <<FetchCall(op)>>, <<>>, FETCHED)]

Conflict == "Conflict"    \* an update refused because the resource has changed

\* variant: the update is refused when the resource is no longer what was
\* fetched
MetadataService_log_update_checked(st, fl) ==
    IF st[TargetKind(fl.op)][fl.target] # fl.fetched
    THEN [err |-> Conflict, store |-> st,
          inflight |-> [fl EXCEPT !.trace = Append(@, UpdateCall(fl.op)),
                                  !.pc = DONE]]
    ELSE [err |-> OK,
          store |-> [st EXCEPT ![TargetKind(fl.op)] =
                        UpdateFetched(@, fl.target, fl.fetched, DictOf(fl.arg))],
          inflight |-> [fl EXCEPT !.trace = Append(@, UpdateCall(fl.op)),
                                  !.pc = DONE]]

\* log_params / log_metrics from the re-fetch on: run_execution.update(
\* metadata=params) (metric_artifact.update(metadata=metrics))
MetadataService_log_update(st, fl) ==
    [err |-> OK,
     store |-> [st EXCEPT ![TargetKind(fl.op)] =
                   UpdateFetched(@, fl.target, fl.fetched, DictOf(fl.arg))],
     inflight |-> [fl EXCEPT !.trace = Append(@, UpdateCall(fl.op)),
                             !.pc = DONE]]

\* the service is single threaded: a call starts when none is in progress
WriterIdle == inflight.pc = DONE

WriterSetExperiment == WriterIdle /\ LoggingSetExperiment

WriterStartRun == WriterIdle /\ LoggingStartRun

LogFetch ==
    /\ WriterIdle
    /\ \E op \in {"log_params", "log_metrics"} :
        \E items \in (IF op = "log_params" THEN ParamsInputs ELSE MetricsInputs) :
            LET r == MetadataService_log_fetch(service, store, op, items)
            IN  /\ store' = r.store
                /\ inflight' = r.inflight
                /\ last' = IF r.err = OK THEN last
                           ELSE Outcome(op, items, FALSE, r.err, r.message, 0,
                                        FALSE, NoRun)
    /\ UNCHANGED <<tracker, contexts, runs, nExternal, service, table, journal, threads,
                   agent, global_config>>

LogUpdate ==
    /\ inflight.pc = FETCHED
    /\ LET r == MetadataService_log_update(store, inflight)
       IN  /\ store' = r.store
           /\ inflight' = r.inflight
           /\ last' = Outcome(inflight.op, inflight.arg, FALSE, r.err, "",
                              Len(r.inflight.trace), FALSE, NoRun)
    /\ UNCHANGED <<tracker, contexts, runs, nExternal, service, table, journal, threads,
                   agent, global_config>>

ExternalItems == { Item("lr", Val("float", "0.5")), Item("a", Val("int", "7")) }

\* the external writer updates the metadata of a run or of a metrics artifact
ExternalWrite ==
    /\ nExternal < MaxExternal
    /\ \E kind \in {"executions", "artifacts"} :
        \E id \in DOMAIN store[kind], item \in ExternalItems :
            /\ store[kind][id].schema_title \in {SYSTEM_RUN, SYSTEM_METRICS}
            /\ store' = [store EXCEPT ![kind] = Update(@, id, DictOf(<<item>>), None)]
            /\ inflight' =
                 IF /\ inflight.pc = FETCHED
                    /\ kind = TargetKind(inflight.op)
                    /\ id = inflight.target
                 THEN [inflight EXCEPT !.since = Append(@, item)]
                 ELSE inflight
    /\ nExternal' = nExternal + 1
    /\ last' = Outcome("external", None, FALSE, OK, "", 0, FALSE, NoRun)
    /\ UNCHANGED <<tracker, contexts, runs, service, table, journal, threads,
                   agent, global_config>>

WriterNext ==
    \/ WriterSetExperiment
    \/ WriterStartRun
    \/ LogFetch
    \/ LogUpdate
    \/ ExternalWrite

WriterSpec == Init /\ [][WriterNext]_vars

(***************************************************************************)
(* The table query, over experiments and runs whose names hold the "-" the *)
(* run id is composed with.                                                *)
(***************************************************************************)
TableExperiments == {"e", "e-r"}
TableRuns == {"x", "r-x"}
TableRunIds == {RunId(e, r) : e \in TableExperiments, r \in TableRuns}
TableMetricsIds == {MetricsId(e, r) : e \in TableExperiments, r \in TableRuns}

TableParamsInputs == { <<Item("learning_rate", Val("float", "0.1"))>> }
TableMetricsInputs == { <<Item("accuracy", Val("float", "0.9"))>> }

\* ".".join([metadata_type, key])
ColumnName(metadata_type, key) == metadata_type \o "." \o key

\* key.startswith(filter_prefix)
StartsWith(key, filter_prefix) ==
    IF Len(filter_prefix) = 0 THEN TRUE
    ELSE IF Len(key) < Len(filter_prefix) THEN FALSE
    ELSE SubSeq(key, 1, Len(filter_prefix)) = filter_prefix

\* key[n:]
SliceFrom(key, n) ==
    IF n >= Len(key) THEN "" ELSE SubSeq(key, n + 1, Len(key))

\* variant: the prefix is removed wherever the key is long enough to hold it
ColumnKey_strips_blindly(metadata_type, key, filter_prefix) ==
    IF filter_prefix # None /\ filter_prefix # ""
       /\ Len(key) >= Len(filter_prefix)
    THEN ColumnName(metadata_type, SliceFrom(key, Len(filter_prefix)))
    ELSE ColumnName(metadata_type, key)

\* the column of one key: "if filter_prefix and key.startswith(filter_prefix):
\* key = key[len(filter_prefix):]", then the join with the metadata type
ColumnKey(metadata_type, key, filter_prefix) ==
    IF filter_prefix # None /\ filter_prefix # ""
       /\ StartsWith(key, filter_prefix)
    THEN ColumnName(metadata_type, SliceFrom(key, Len(filter_prefix)))
    ELSE ColumnName(metadata_type, key)

\* _MetadataService._execution_to_column_named_metadata; metadata is the
\* mapping as the sequence of its items, in the order the loop visits them: a
\* column assigned twice keeps the value assigned last
_execution_to_column_named_metadata(metadata_type, metadata, filter_prefix) ==
    DictOf([i \in 1..Len(metadata) |->
               Item(ColumnKey(metadata_type, metadata[i].key, filter_prefix),
                    metadata[i].value)])

\* metadata.items() of a mapping held by the store
RECURSIVE ItemsOf(_)
ItemsOf(metadata) ==
    IF DOMAIN metadata = {} THEN <<>>
    ELSE LET k == CHOOSE k \in DOMAIN metadata : TRUE
         IN  <<Item(k, metadata[k])>>
             \o ItemsOf([x \in DOMAIN metadata \ {k} |-> metadata[x]])

\* run_execution.query_input_and_output_artifacts()
ArtifactsOf(st, id) ==
    {mid \in DOMAIN st.artifacts : <<id, mid>> \in st.events \cup st.inputs}

\* for metric_artifact in ...: run_dict.update(<the "metric" columns>)
RECURSIVE MetricColumns(_, _, _)
MetricColumns(st, mids, run_dict) ==
    IF mids = {} THEN run_dict
    ELSE LET mid == CHOOSE m \in mids : TRUE
         IN  MetricColumns(st, mids \ {mid},
                 Merge(run_dict,
                       _execution_to_column_named_metadata(
                           "metric", ItemsOf(st.artifacts[mid].metadata), None)))

\* the run_dict _query_runs_to_data_frame builds for one run execution
RunRow(st, context_id, source, id) ==
    MetricColumns(st, ArtifactsOf(st, id),
        Merge([c \in {source \o "_name", "run_name"} |->
                  IF c = "run_name" THEN st.executions[id].display_name
                  ELSE context_id],
              _execution_to_column_named_metadata(
                  "param", ItemsOf(st.executions[id].metadata), None)))

\* _MetadataService._query_runs_to_data_frame: one row for every execution
\* Execution.list returns
_query_runs_to_data_frame(st, context_id, source) ==
    [id \in RunsInContext(st, context_id) |-> RunRow(st, context_id, source, id)]

\* the history kept beside the service
NoLog == [params |-> EmptyDict, metrics |-> EmptyDict]

JournalStart(j, experiment, run) ==
    [active |-> <<experiment, run>>,
     runs |-> [p \in DOMAIN j.runs \cup {<<experiment, run>>} |->
                  IF p \in DOMAIN j.runs THEN j.runs[p] ELSE NoLog]]

JournalLog(j, field, items) ==
    [j EXCEPT !.runs[j.active][field] = Merge(@, DictOf(items))]

TableApply(op, arg, r, tbl, jr) ==
    /\ service' = r.service
    /\ store' = r.store
    /\ last' = Outcome(op, arg, FALSE, r.result, r.message, r.calls, FALSE, NoRun)
    /\ table' = tbl
    /\ journal' = jr
    /\ UNCHANGED <<tracker, contexts, runs, nExternal, inflight, threads,
                   agent, global_config>>

TableSetExperiment ==
    \E experiment \in TableExperiments :
        TableApply("set_experiment", experiment,
                   MetadataService_set_experiment(service, store, experiment,
                                                  None, 0),
                   NoTable, [journal EXCEPT !.active = <<>>])

TableStartRun ==
    \E run \in TableRuns :
        LET r == MetadataService_start_run(service, store, run, 0)
        IN  TableApply("start_run", run, r, NoTable,
                       IF r.result = OK
                       THEN JournalStart(journal, service.experiment, run)
                       ELSE journal)

TableLogParams ==
    \E params \in TableParamsInputs :
        LET r == MetadataService_log_params(service, store, params, 0)
        IN  TableApply("log_params", params, r, NoTable,
                       IF r.result = OK
                       THEN JournalLog(journal, "params", params)
                       ELSE journal)

TableLogMetrics ==
    \E metrics \in TableMetricsInputs :
        LET r == MetadataService_log_metrics(service, store, metrics, 0)
        IN  TableApply("log_metrics", metrics, r, NoTable,
                       IF r.result = OK
                       THEN JournalLog(journal, "metrics", metrics)
                       ELSE journal)

TableGetExperimentDf ==
    \E experiment \in TableExperiments \cup {None} :
        LET r == MetadataService_get_experiment_df(service, store, experiment, 0)
        IN  TableApply("get_experiment_df", experiment, r,
                       IF r.result = OK
                       THEN _query_runs_to_data_frame(
                                store,
                                IF experiment = None THEN service.experiment
                                ELSE experiment,
                                "experiment")
                       ELSE NoTable,
                       journal)

TableInit ==
    /\ tracker = [experiment |-> None, run |-> NoRun]
    /\ contexts = [name \in ExperimentNames |-> ABSENT]
    /\ runs = [id \in RunIds |-> ABSENT]
    /\ last = NoOutcome
    /\ nExternal = 0
    /\ service = NoService
    /\ store = [contexts |-> [name \in TableExperiments |-> NoResource],
                executions |-> [id \in TableRunIds |-> NoResource],
                artifacts |-> [mid \in TableMetricsIds |-> NoResource],
                links |-> {},
                events |-> {},
                inputs |-> {}]
    /\ table = NoTable
    /\ inflight = NoCall
    /\ journal = NoJournal
    /\ threads = NoThreads
    /\ agent = LangchainAgent_init(DefaultConfig)
    /\ global_config = DefaultConfig

TableNext ==
    \/ TableSetExperiment
    \/ TableStartRun
    \/ TableLogParams
    \/ TableLogMetrics
    \/ TableGetExperimentDf

TableSpec == TableInit /\ [][TableNext]_vars

(***************************************************************************)
(* The columns of the table: two runs of one experiment with parameters    *)
(* and metrics of their own, and an external writer that associates an     *)
(* artifact to a run as input.                                             *)
(***************************************************************************)
ColumnRuns == {"r1", "r2"}
ColumnRunIds == {RunId("e1", r) : r \in ColumnRuns}
ColumnMetricsIds == {MetricsId("e1", r) : r \in ColumnRuns}

SYSTEM_DATASET == "system.Dataset"
DatasetId == "data"
DatasetMetadata == DictOf(<<Item("rows", Val("int", "10"))>>)

ColumnParamsInputs ==
    { <<Item("lr", Val("float", "0.1"))>>, <<Item("n", Val("int", "3"))>> }
ColumnMetricsInputs ==
    { <<Item("a", Val("float", "0.9"))>>, <<Item("b", Val("int", "2"))>> }

ColumnsSetExperiment ==
    TableApply("set_experiment", "e1",
               MetadataService_set_experiment(service, store, "e1", None, 0),
               NoTable, journal)

ColumnsStartRun ==
    \E run \in ColumnRuns :
        TableApply("start_run", run,
                   MetadataService_start_run(service, store, run, 0),
                   NoTable, journal)

ColumnsLogParams ==
    \E params \in ColumnParamsInputs :
        TableApply("log_params", params,
                   MetadataService_log_params(service, store, params, 0),
                   NoTable, journal)

ColumnsLogMetrics ==
    \E metrics \in ColumnMetricsInputs :
        TableApply("log_metrics", metrics,
                   MetadataService_log_metrics(service, store, metrics, 0),
                   NoTable, journal)

ColumnsGetExperimentDf ==
    LET r == MetadataService_get_experiment_df(service, store, None, 0)
    IN  TableApply("get_experiment_df", None, r,
                   IF r.result = OK
                   THEN _query_runs_to_data_frame(store, service.experiment,
                                                  "experiment")
                   ELSE NoTable,
                   journal)

\* the external writer associates an artifact to a run execution as input:
\* the Metrics Artifact of another run, or a dataset it creates
ColumnsAssociateInput ==
    /\ nExternal < MaxExternal
    /\ \E id \in ColumnRunIds, mid \in ColumnMetricsIds \cup {DatasetId} :
        /\ store.executions[id].schema_title = SYSTEM_RUN
        /\ <<id, mid>> \notin store.events \cup store.inputs
        /\ mid # DatasetId => store.artifacts[mid].schema_title = SYSTEM_METRICS
        /\ store' = [store EXCEPT
                !.artifacts[mid] =
                    IF @.schema_title = ABSENT
                    THEN [Resource(SYSTEM_DATASET, None) EXCEPT
                            !.metadata = DatasetMetadata]
                    ELSE @,
                !.inputs = @ \cup {<<id, mid>>}]
    /\ nExternal' = nExternal + 1
    /\ last' = Outcome("external", None, FALSE, OK, "", 0, FALSE, NoRun)
    /\ table' = NoTable
    /\ UNCHANGED <<tracker, contexts, runs, service, inflight, journal, threads,
                   agent, global_config>>

ColumnsInit ==
    /\ tracker = [experiment |-> None, run |-> NoRun]
    /\ contexts = [name \in ExperimentNames |-> ABSENT]
    /\ runs = [id \in RunIds |-> ABSENT]
    /\ last = NoOutcome
    /\ nExternal = 0
    /\ service = NoService
    /\ store = [contexts |-> [name \in ExperimentNames |-> NoResource],
                executions |-> [id \in ColumnRunIds |-> NoResource],
                artifacts |-> [mid \in ColumnMetricsIds \cup {DatasetId} |->
                                  NoResource],
                links |-> {},
                events |-> {},
                inputs |-> {}]
    /\ table = NoTable
    /\ inflight = NoCall
    /\ journal = NoJournal
    /\ threads = NoThreads
    /\ agent = LangchainAgent_init(DefaultConfig)
    /\ global_config = DefaultConfig

ColumnsNext ==
    \/ ColumnsSetExperiment
    \/ ColumnsStartRun
    \/ ColumnsLogParams
    \/ ColumnsLogMetrics
    \/ ColumnsGetExperimentDf
    \/ ColumnsAssociateInput

ColumnsSpec == ColumnsInit /\ [][ColumnsNext]_vars

(***************************************************************************)
(* The column function on its own: a metadata type, a mapping as the       *)
(* sequence of its items (keys distinct, as in a dict) and a prefix are     *)
(* drawn, and the function is applied once.                                 *)
(***************************************************************************)
MaxItems == 2

PrefixTypes == {"param", "metric"}
PrefixKeys == {"lr", "in", "input:", "input:lr", "input:input:lr"}
PrefixValues == {Val("int", "1"), Val("int", "2")}
FilterPrefixes == {None, "", "in", "input:"}

PrefixMappings ==
    { m \in UNION {[1..n -> {Item(k, v) : k \in PrefixKeys, v \in PrefixValues}] :
                      n \in 0..MaxItems} :
        \A i, j \in 1..Len(m) : i # j => m[i].key # m[j].key }

ColumnArgs(metadata_type, metadata, filter_prefix) ==
    [metadata_type |-> metadata_type, metadata |-> metadata,
     filter_prefix |-> filter_prefix]

PrefixInit ==
    /\ tracker = [experiment |-> None, run |-> NoRun]
    /\ contexts = [name \in ExperimentNames |-> ABSENT]
    /\ runs = [id \in RunIds |-> ABSENT]
    /\ \E metadata_type \in PrefixTypes, metadata \in PrefixMappings,
          filter_prefix \in FilterPrefixes :
            last = Outcome(None,
                           ColumnArgs(metadata_type, metadata, filter_prefix),
                           FALSE, OK, "", 0, FALSE, NoRun)
    /\ nExternal = 0
    /\ service = NoService
    /\ store = [contexts |-> [name \in ExperimentNames |-> NoResource],
                executions |-> [id \in ColumnRunIds |-> NoResource],
                artifacts |-> [mid \in ColumnMetricsIds |-> NoResource],
                links |-> {},
                events |-> {},
                inputs |-> {}]
    /\ table = NoTable
    /\ inflight = NoCall
    /\ journal = NoJournal
    /\ threads = NoThreads
    /\ agent = LangchainAgent_init(DefaultConfig)
    /\ global_config = DefaultConfig

ExecutionToColumnNamedMetadata ==
    /\ last.op = None
    /\ table' = _execution_to_column_named_metadata(
                    last.arg.metadata_type, last.arg.metadata,
                    last.arg.filter_prefix)
    /\ last' = [last EXCEPT !.op = "_execution_to_column_named_metadata"]
    /\ UNCHANGED <<tracker, contexts, runs, nExternal, service, store,
                   inflight, journal, threads,
                   agent, global_config>>

PrefixNext == ExecutionToColumnNamedMetadata

PrefixSpec == PrefixInit /\ [][PrefixNext]_vars

(***************************************************************************)
(* The tracker with start_execution and the table query.  One experiment,  *)
(* no failing call in set_experiment, start_run and end_run.  An execution *)
(* of the store has a state; a run made by the legacy service (an          *)
(* execution of schema system.Run under the id of the run) is a legacy run.*)
(***************************************************************************)
BadArgument == "BadArgument"      \* ValueError of start_execution

RunProject == "p1"                \* self._experiment_run.project
RunLocation == "us"               \* self._experiment_run.location

ExecutionRunIds == {RunId("e1", r) : r \in RunNames}
GivenExecutionId == "x1"          \* a resource_id the caller gives
ServerExecutionId == "g1"         \* the id the store gives when none is given
ExecutionIds == {GivenExecutionId, ServerExecutionId}

ExecutionResource(schema_title, display_name, state) ==
    [schema_title |-> schema_title, display_name |-> display_name,
     description |-> None, metadata |-> EmptyDict, state |-> state]

NoExecution == ExecutionResource(ABSENT, None, None)

\* the arguments of a start_execution call
StartExecutionArgs(schema_title, resource_id, resume, project, location) ==
    [schema_title |-> schema_title, resource_id |-> resource_id,
     resume |-> resume, project |-> project, location |-> location]

\* the project and the location of a call: none given, those of the run,
\* another project, another location
Places == {<<None, None>>, <<RunProject, RunLocation>>, <<"p2", None>>,
           <<None, "eu">>}

\* the calls made: a new execution under every place, under a given id and
\* without a schema title; a resumed execution with and without an id
StartExecutionInputs ==
    {StartExecutionArgs(SYSTEM_CONTAINER_EXECUTION, None, FALSE,
                        place[1], place[2]) : place \in Places}
    \cup {StartExecutionArgs(schema_title, GivenExecutionId, FALSE, None, None) :
            schema_title \in {None, "", SYSTEM_CONTAINER_EXECUTION}}
    \cup {StartExecutionArgs(None, resource_id, TRUE, None, None) :
            resource_id \in {None, "", GivenExecutionId}}
    \cup {StartExecutionArgs(None, GivenExecutionId, TRUE, "p2", None),
          StartExecutionArgs(None, None, FALSE, None, "eu")}

\* self._experiment_run._is_legacy_experiment_run()
IsLegacy(st, run) == st.executions[RunIdOf(run)].schema_title = SYSTEM_RUN

XRet(tr, rs, st, result, message, calls, warned) ==
    [tracker |-> tr, runs |-> rs, store |-> st, result |-> result,
     message |-> message, calls |-> calls, warned |-> warned]

\* start_execution, from "if self.experiment_run:" on: the execution id,
\* fetched or created with n remote calls, is associated to the active run,
\* or a warning is logged when the run is a legacy run
AssociateExecution(tr, rs, st, id, n, fault) ==
    IF tr.run = NoRun
    THEN XRet(tr, rs, st, OK, "", n, FALSE)
    ELSE IF IsLegacy(st, tr.run)
    THEN XRet(tr, rs, st, OK, "", n, TRUE)
    ELSE IF fault = n + 1
    THEN XRet(tr, rs, st, RemoteError, "", n + 1, FALSE)
    ELSE IF rs[RunIdOf(tr.run)] = ABSENT
    THEN XRet(tr, rs, st, NotFound, "", n + 1, FALSE)
    ELSE XRet(tr, rs, [st EXCEPT !.links = @ \cup {<<RunIdOf(tr.run), id>>}],
              OK, "", n + 1, FALSE)

\* start_execution, the "if resume:" branch and its "else:"
StartExecutionBody(tr, rs, st, a, fault) ==
    IF a.resume
    THEN IF ~Truthy(a.resource_id)
         THEN XRet(tr, rs, st, BadArgument,
                   "resource_id is required when resume=True", 0, FALSE)
         ELSE IF fault = 1 THEN XRet(tr, rs, st, RemoteError, "", 1, FALSE)
         ELSE IF st.executions[a.resource_id].schema_title = ABSENT
         THEN XRet(tr, rs, st, NotFound, "", 1, FALSE)
         ELSE IF fault = 2 THEN XRet(tr, rs, st, RemoteError, "", 2, FALSE)
         ELSE AssociateExecution(
                  tr, rs,
                  [st EXCEPT !.executions[a.resource_id].state = RUNNING],
                  a.resource_id, 2, fault)
    ELSE IF ~Truthy(a.schema_title)
         THEN XRet(tr, rs, st, BadArgument,
                   "schema_title must be provided when starting a new Execution",
                   0, FALSE)
         ELSE IF fault = 1 THEN XRet(tr, rs, st, RemoteError, "", 1, FALSE)
         ELSE LET id == IF Truthy(a.resource_id) THEN a.resource_id
                        ELSE ServerExecutionId
              IN  IF st.executions[id].schema_title # ABSENT
                  THEN XRet(tr, rs, st, AlreadyExists, "", 1, FALSE)
                  ELSE AssociateExecution(
                           tr, rs,
                           [st EXCEPT !.executions[id] =
                               ExecutionResource(a.schema_title, None, RUNNING)],
                           id, 1, fault)

\* variant: the project and the location are compared once the execution is
\* fetched or created
ExperimentTracker_start_execution_validates_late(tr, rs, st, a, fault) ==
    LET r == StartExecutionBody(tr, rs, st, a, fault)
    IN  IF r.result = OK /\ tr.run # NoRun /\ ~IsLegacy(st, tr.run)
           /\ \/ Truthy(a.project) /\ a.project # RunProject
              \/ Truthy(a.location) /\ a.location # RunLocation
        THEN XRet(r.tracker, r.runs, r.store, BadArgument, "", r.calls, FALSE)
        ELSE r

\* _ExperimentTracker.start_execution
ExperimentTracker_start_execution(tr, rs, st, a, fault) ==
    IF tr.run # NoRun /\ ~IsLegacy(st, tr.run)
       /\ Truthy(a.project) /\ a.project # RunProject
    THEN XRet(tr, rs, st, BadArgument,
              "Currently set Experiment run project " \o RunProject
              \o " mustmatch provided project " \o a.project, 0, FALSE)
    ELSE IF tr.run # NoRun /\ ~IsLegacy(st, tr.run)
            /\ Truthy(a.location) /\ a.location # RunLocation
    THEN XRet(tr, rs, st, BadArgument,
              "Currently set Experiment run location " \o RunLocation
              \o " mustmatch provided location " \o a.project, 0, FALSE)
    ELSE StartExecutionBody(tr, rs, st, a, fault)

\* variant: the experiment looked up becomes the active experiment
ExperimentTracker_get_experiment_df_sets_experiment(tr, ctx, rs, st, experiment, fault) ==
    IF ~Truthy(experiment)
    THEN IF tr.experiment = None
         THEN XRet(tr, rs, st, AttributeError, "", 0, FALSE)
         ELSE IF fault = 1 THEN XRet(tr, rs, st, RemoteError, "", 1, FALSE)
         ELSE XRet(tr, rs, st, OK, "", 1, FALSE)
    ELSE IF fault = 1 THEN XRet(tr, rs, st, RemoteError, "", 1, FALSE)
    ELSE IF ctx[experiment] = ABSENT
    THEN XRet(tr, rs, st, NotFound, "", 1, FALSE)
    ELSE IF ctx[experiment] # SYSTEM_EXPERIMENT
    THEN XRet(tr, rs, st, InvalidResource, "", 1, FALSE)
    ELSE IF fault = 2
    THEN XRet([tr EXCEPT !.experiment = experiment], rs, st, RemoteError, "", 2,
              FALSE)
    ELSE XRet([tr EXCEPT !.experiment = experiment], rs, st, OK, "", 2, FALSE)

\* _ExperimentTracker.get_experiment_df: the experiment named is looked up
\* (call 1), or the active one taken, and its runs are listed (call 2); the
\* table itself is assembled by Experiment.get_data_frame
ExperimentTracker_get_experiment_df(tr, ctx, rs, st, experiment, fault) ==
    IF ~Truthy(experiment)
    THEN IF tr.experiment = None
         THEN XRet(tr, rs, st, AttributeError, "", 0, FALSE)
         ELSE IF fault = 1 THEN XRet(tr, rs, st, RemoteError, "", 1, FALSE)
         ELSE XRet(tr, rs, st, OK, "", 1, FALSE)
    ELSE IF fault = 1 THEN XRet(tr, rs, st, RemoteError, "", 1, FALSE)
    ELSE IF ctx[experiment] = ABSENT
    THEN XRet(tr, rs, st, NotFound, "", 1, FALSE)
    ELSE IF ctx[experiment] # SYSTEM_EXPERIMENT
    THEN XRet(tr, rs, st, InvalidResource, "", 1, FALSE)
    ELSE IF fault = 2 THEN XRet(tr, rs, st, RemoteError, "", 2, FALSE)
    ELSE XRet(tr, rs, st, OK, "", 2, FALSE)

ExecutionApply(op, arg, r) ==
    /\ tracker' = r.tracker
    /\ runs' = r.runs
    /\ store' = r.store
    /\ last' = Outcome(op, arg, FALSE, r.result, r.message, r.calls, r.warned,
                       tracker.run)
    /\ UNCHANGED <<contexts, nExternal, service, table, inflight, journal,
                   threads,
                   agent, global_config>>

ExecutionSetExperiment ==
    Apply("set_experiment", "e1", FALSE,
          ExperimentTracker_set_experiment(tracker, contexts, runs, "e1", 0))

ExecutionStartRun ==
    \E run_name \in RunNames, resume \in BOOLEAN :
        Apply("start_run", run_name, resume,
              ExperimentTracker_start_run(tracker, contexts, runs, run_name,
                                          resume, 0))

ExecutionEndRun ==
    Apply("end_run", COMPLETE, FALSE,
          ExperimentTracker_end_run(tracker, contexts, runs, COMPLETE, 0))

ExecutionLogParams == LogParams

ExecutionLogMetrics == LogMetrics

StartExecution ==
    \E a \in StartExecutionInputs, fault \in 0..3 :
        ExecutionApply("start_execution", a,
                       ExperimentTracker_start_execution(tracker, runs, store,
                                                         a, fault))

GetExperimentDf ==
    \E experiment \in {None, "", "e1", "e2"}, fault \in 0..2 :
        ExecutionApply("get_experiment_df", experiment,
                       ExperimentTracker_get_experiment_df(
                           tracker, contexts, runs, store, experiment, fault))

\* the external writer has made a run with the legacy service
ExternalCreateLegacyRun ==
    /\ nExternal < MaxExternal
    /\ \E run_name \in RunNames :
        LET id == RunId("e1", run_name)
        IN  /\ runs[id] = ABSENT
            /\ store.executions[id].schema_title = ABSENT
            /\ runs' = [runs EXCEPT ![id] = COMPLETE]
            /\ store' = [store EXCEPT !.executions[id] =
                            ExecutionResource(SYSTEM_RUN, run_name, COMPLETE)]
    /\ nExternal' = nExternal + 1
    /\ last' = Outcome("external", None, FALSE, OK, "", 0, FALSE, tracker.run)
    /\ UNCHANGED <<tracker, contexts, service, table, inflight, journal,
                   threads,
                   agent, global_config>>

\* the store holds an experiment "e2" made by an earlier session
ExecutionInit ==
    /\ tracker = [experiment |-> None, run |-> NoRun]
    /\ contexts = [name \in ExperimentNames |->
                       IF name = "e2" THEN SYSTEM_EXPERIMENT ELSE ABSENT]
    /\ runs = [id \in RunIds |-> ABSENT]
    /\ last = NoOutcome
    /\ nExternal = 0
    /\ service = NoService
    /\ store = [contexts |-> [name \in ExperimentNames |-> NoResource],
                executions |-> [id \in ExecutionIds \cup ExecutionRunIds |->
                                   NoExecution],
                artifacts |-> [mid \in MetricsIds |-> NoResource],
                links |-> {},
                events |-> {},
                inputs |-> {}]
    /\ table = NoTable
    /\ inflight = NoCall
    /\ journal = NoJournal
    /\ threads = NoThreads
    /\ agent = LangchainAgent_init(DefaultConfig)
    /\ global_config = DefaultConfig

ExecutionNext ==
    \/ ExecutionSetExperiment
    \/ ExecutionStartRun
    \/ ExecutionEndRun
    \/ ExecutionLogParams
    \/ ExecutionLogMetrics
    \/ StartExecution
    \/ GetExperimentDf
    \/ ExternalCreateLegacyRun

ExecutionSpec == ExecutionInit /\ [][ExecutionNext]_vars

(***************************************************************************)
(* One agent at a time: the caller sets the process-wide configuration,    *)
(* constructs an agent, sets it up and queries it.                         *)
(***************************************************************************)
AgentProjects == {None, "p1", "p2"}
AgentLocations == {None, "us", "eu"}

AgentApply(op, r) ==
    /\ agent' = r.agent
    /\ global_config' = r.global_config
    /\ last' = Outcome(op, None, FALSE, r.result, "", 0, FALSE, NoRun)
    /\ UNCHANGED <<tracker, contexts, runs, nExternal, service, store, table,
                   inflight, journal, threads>>

\* the caller's vertexai.init(project=..., location=...)
AgentVertexaiInit ==
    \E project \in AgentProjects, location \in AgentLocations :
        AgentApply("vertexai.init",
                   ARet(agent, VertexaiInit(global_config, project, location),
                        OK))

\* the caller constructs a new agent, which replaces the one it had
AgentNew ==
    AgentApply("__init__", ARet(LangchainAgent_init(global_config),
                                global_config, OK))

AgentSetUp ==
    \E fault \in 0..2 :
        AgentApply("set_up",
                   LangchainAgent_set_up([agent EXCEPT !.steps = <<>>],
                                         global_config, fault))

AgentQuery ==
    \E fault \in 0..3 :
        AgentApply("query", LangchainAgent_query(agent, global_config, fault))

AgentNext ==
    \/ AgentVertexaiInit
    \/ AgentNew
    \/ AgentSetUp
    \/ AgentQuery

AgentSpec == Init /\ [][AgentNext]_vars

(***************************************************************************)
(* Two threads on one tracker.  The tracker takes no lock, so a call is a  *)
(* sequence of steps, one for every read or write of self._experiment_run  *)
(* and one for every remote call, and the steps of two calls interleave.   *)
(* The experiment is set once, before any thread calls.                    *)
(***************************************************************************)
TRet(th, tr, rs) == [thread |-> th, tracker |-> tr, runs |-> rs]

\* the exception leaves the call
Raise(th, err) == Returned(th.op, err)

\* start_run, line 540: "if not self._experiment: raise ValueError"
StartRun_L540(th, tr, rs, run_name, resume) ==
    IF tr.experiment = None
    THEN TRet(Returned("start_run", NotSet), tr, rs)
    ELSE TRet(Thread("L546", "start_run", run_name, resume, None, FALSE, NoRun,
                     OK, OK), tr, rs)

\* variant: the run that is active is not ended
StartRun_L546_skipped(th, tr, rs) ==
    TRet([th EXCEPT !.pc = "L549"], tr, rs)

\* start_run, lines 546-547: "if self._experiment_run: self.end_run()"
StartRun_L546(th, tr, rs) ==
    IF tr.run # NoRun
    THEN TRet([th EXCEPT !.pc = "L567", !.nested = TRUE, !.state = COMPLETE],
              tr, rs)
    ELSE TRet([th EXCEPT !.pc = "L549"], tr, rs)

\* end_run, line 567: self._validate_experiment_and_run(method_name='end_run')
EndRun_L567(th, tr, rs) ==
    IF _validate_experiment_and_run(tr.experiment, tr.run, "end_run") # ""
    THEN TRet(Raise(th, NotSet), tr, rs)
    ELSE TRet([th EXCEPT !.pc = "L569"], tr, rs)

\* end_run, line 569: the read of self._experiment_run; .end_run on None
\* raises AttributeError, which "finally" lets through
EndRun_L569(th, tr, rs) ==
    IF tr.run = NoRun
    THEN TRet([th EXCEPT !.pc = "L574", !.pending = AttributeError], tr, rs)
    ELSE TRet([th EXCEPT !.pc = "L569 call", !.held = tr.run], tr, rs)

\* end_run, line 569: the remote call <run>.end_run(state=state)
EndRun_L569_call(th, tr, rs) ==
    LET e == ExperimentRun_end_run(rs, RunIdOf(th.held), th.state, FALSE)
    IN  IF e.err = NotFound
        THEN TRet([th EXCEPT !.pc = "L571", !.held = NoRun], tr, e.runs)
        ELSE TRet([th EXCEPT !.pc = "L574", !.held = NoRun, !.pending = e.err],
                  tr, e.runs)

\* end_run, lines 570-572: "except exceptions.NotFound:" the warning reads
\* self._experiment_run.name
EndRun_L571(th, tr, rs) ==
    TRet([th EXCEPT !.pc = "L574",
                    !.pending = IF tr.run = NoRun THEN AttributeError ELSE OK],
         tr, rs)

\* end_run, lines 573-574: "finally: self._experiment_run = None", then the
\* pending exception is raised, or the call returns (into start_run when it
\* was called from there)
EndRun_L574(th, tr, rs) ==
    LET tr1 == [tr EXCEPT !.run = NoRun]
    IN  IF th.pending # OK THEN TRet(Raise(th, th.pending), tr1, rs)
        ELSE IF th.nested
        THEN TRet([th EXCEPT !.pc = "L549", !.nested = FALSE, !.state = None],
                  tr1, rs)
        ELSE TRet(Returned(th.op, OK), tr1, rs)

\* start_run, lines 549-552 and 558-561: the remote call that looks the run
\* up (resume) or creates it; its result is not assigned yet
StartRun_L549(th, tr, rs) ==
    LET new == [run_name |-> th.run_name, experiment |-> tr.experiment]
        r == IF th.resume THEN ExperimentRun_init(rs, RunIdOf(new), FALSE)
             ELSE ExperimentRun_create(rs, RunIdOf(new), FALSE)
    IN  IF r.err # OK THEN TRet(Raise(th, r.err), tr, r.runs)
        ELSE TRet([th EXCEPT !.pc = "L550", !.held = new], tr, r.runs)

\* start_run, lines 550 and 559: "self._experiment_run = <the run>"
StartRun_L550(th, tr, rs) ==
    IF th.resume
    THEN TRet([th EXCEPT !.pc = "L556", !.held = NoRun],
              [tr EXCEPT !.run = th.held], rs)
    ELSE TRet(Returned(th.op, OK), [tr EXCEPT !.run = th.held], rs)

\* start_run, line 556: the read of self._experiment_run
StartRun_L556(th, tr, rs) ==
    IF tr.run = NoRun THEN TRet(Raise(th, AttributeError), tr, rs)
    ELSE TRet([th EXCEPT !.pc = "L556 call", !.held = tr.run], tr, rs)

\* start_run, line 556: the remote call <run>.update_state(state=RUNNING)
StartRun_L556_call(th, tr, rs) ==
    LET u == ExperimentRun_update_state(rs, RunIdOf(th.held), RUNNING, FALSE)
    IN  TRet(Returned(th.op, u.err), tr, u.runs)

\* a step of thread t; it overlaps when another thread is inside a call
ThreadStep(t, r) ==
    /\ threads' = [of |-> [threads.of EXCEPT ![t] = r.thread],
                   overlapped |-> \/ threads.overlapped
                                  \/ \E u \in Threads \ {t} :
                                        threads.of[u].pc # IDLE]
    /\ tracker' = r.tracker
    /\ runs' = r.runs
    /\ UNCHANGED <<contexts, last, nExternal, service, store, table, inflight,
                   journal,
                   agent, global_config>>

At(pc) == {t \in Threads : threads.of[t].pc = pc}

ThreadSetExperiment ==
    /\ tracker.experiment = None
    /\ \A t \in Threads : threads.of[t].pc = IDLE
    /\ Apply("set_experiment", "e1", FALSE,
             ExperimentTracker_set_experiment(tracker, contexts, runs, "e1", 0))

ThreadStartRun ==
    \E t \in At(IDLE), run_name \in RunNames, resume \in BOOLEAN :
        ThreadStep(t, StartRun_L540(threads.of[t], tracker, runs, run_name,
                                    resume))

ThreadEndRun ==
    \E t \in At(IDLE), state \in TerminalStates :
        ThreadStep(t, EndRun_L567(
                          Thread("L567", "end_run", None, FALSE, state, FALSE,
                                 NoRun, OK, OK),
                          tracker, runs))

ThreadCheckRun ==
    \E t \in At("L546") : ThreadStep(t, StartRun_L546(threads.of[t], tracker, runs))

ThreadValidate ==
    \E t \in At("L567") : ThreadStep(t, EndRun_L567(threads.of[t], tracker, runs))

ThreadEndRead ==
    \E t \in At("L569") : ThreadStep(t, EndRun_L569(threads.of[t], tracker, runs))

ThreadEndCall ==
    \E t \in At("L569 call") :
        ThreadStep(t, EndRun_L569_call(threads.of[t], tracker, runs))

ThreadEndWarn ==
    \E t \in At("L571") : ThreadStep(t, EndRun_L571(threads.of[t], tracker, runs))

ThreadEndFinally ==
    \E t \in At("L574") : ThreadStep(t, EndRun_L574(threads.of[t], tracker, runs))

ThreadLookupOrCreate ==
    \E t \in At("L549") : ThreadStep(t, StartRun_L549(threads.of[t], tracker, runs))

ThreadBind ==
    \E t \in At("L550") : ThreadStep(t, StartRun_L550(threads.of[t], tracker, runs))

ThreadUpdateRead ==
    \E t \in At("L556") : ThreadStep(t, StartRun_L556(threads.of[t], tracker, runs))

ThreadUpdateCall ==
    \E t \in At("L556 call") :
        ThreadStep(t, StartRun_L556_call(threads.of[t], tracker, runs))

\* the external writer deletes a run while the threads call
ThreadExternalDeleteRun == ExternalDeleteRun

ThreadNext ==
    \/ ThreadSetExperiment
    \/ ThreadStartRun
    \/ ThreadEndRun
    \/ ThreadCheckRun
    \/ ThreadValidate
    \/ ThreadEndRead
    \/ ThreadEndCall
    \/ ThreadEndWarn
    \/ ThreadEndFinally
    \/ ThreadLookupOrCreate
    \/ ThreadBind
    \/ ThreadUpdateRead
    \/ ThreadUpdateCall
    \/ ThreadExternalDeleteRun

ThreadSpec == Init /\ [][ThreadNext]_vars

(***************************************************************************)
(* Properties of the tracker                                               *)
(***************************************************************************)
NO_EXPERIMENT == "NO_EXPERIMENT"
EXPERIMENT_SET == "EXPERIMENT_SET"
RUN_ACTIVE == "RUN_ACTIVE"

TrackerState(tr) ==
    IF tr.experiment = None THEN NO_EXPERIMENT
    ELSE IF tr.run = NoRun THEN EXPERIMENT_SET
    ELSE RUN_ACTIVE

TrackerOps == {"set_experiment", "start_run", "end_run", "log_params", "log_metrics"}

\* the last operation was a successful start_run called while a run was active
StartedOver == last.op = "start_run" /\ last.result = OK /\ last.prev # NoRun

\* the run a successful start_run has just named
NamedRun == [run_name |-> last.arg, experiment |-> tracker.experiment]

\* C1 as stated: after a successful start_run called while a run was active,
\* the run named by the call is the active one and the run that was active
\* before has remote state COMPLETE (where it still exists remotely).
C1_AsStated ==
    StartedOver =>
        /\ tracker.run = NamedRun
        /\ runs[RunIdOf(last.prev)] # ABSENT => runs[RunIdOf(last.prev)] = COMPLETE

\* C1 amended: after a successful start_run called while a run was active, the
\* run named by the call is the active one; the run that was active before, if
\* it still existed remotely when the call was made, has remote state COMPLETE,
\* unless it is the very run the call resumed, which is RUNNING again.
C1_ImplicitEnd ==
    [][(/\ last'.op = "start_run"
        /\ last'.result = OK
        /\ tracker.run # NoRun)
       => /\ tracker'.run = [run_name |-> last'.arg,
                             experiment |-> tracker.experiment]
          /\ tracker'.experiment = tracker.experiment
          /\ (/\ runs[RunIdOf(tracker.run)] # ABSENT
              /\ ~(last'.resume /\ tracker'.run = tracker.run))
             => runs'[RunIdOf(tracker.run)] = COMPLETE
          /\ last'.resume => runs'[RunIdOf(tracker'.run)] = RUNNING]_vars

C1_Witness ==
    /\ StartedOver
    /\ last.prev # tracker.run
    /\ runs[RunIdOf(last.prev)] = COMPLETE
    /\ runs[RunIdOf(tracker.run)] = RUNNING

\* C2: in every reachable state the tracker holds one experiment or none and
\* one run or none; an active run implies an active experiment, and the active
\* run was started under the active experiment.
C2_AtMostOneActive ==
    /\ tracker.experiment \in ExperimentNames \cup {None}
    /\ tracker.run # NoRun =>
        /\ tracker.run.run_name \in RunNames
        /\ tracker.experiment # None
        /\ tracker.run.experiment = tracker.experiment

C2_Witness ==
    /\ tracker.run # NoRun
    /\ tracker.run.experiment = "e2"
    /\ runs[RunId("e1", "r1")] # ABSENT
    /\ last.result # OK

\* C3: end_run on an active run that has been deleted remotely does not raise
\* NotFound (it returns, having logged a warning), clears the active run and
\* leaves the active experiment unchanged.
C3_EndRunOnDeletedRun ==
    [][(/\ last'.op = "end_run"
        /\ tracker.run # NoRun
        /\ runs[RunIdOf(tracker.run)] = ABSENT)
       => /\ last'.result # NotFound
          /\ last'.result = OK => last'.warned
          /\ tracker'.run = NoRun
          /\ tracker'.experiment = tracker.experiment]_vars

C3_Witness ==
    /\ last.op = "end_run"
    /\ last.result = OK
    /\ last.warned
    /\ last.prev # NoRun
    /\ runs[RunIdOf(last.prev)] = ABSENT
    /\ tracker.run = NoRun
    /\ tracker.experiment = last.prev.experiment

\* C6: start_run(run_name, resume=true) for a run whose composed id is not in
\* the remote store raises (NotFound, unless a remote call failed first), and
\* no run resource is created.
C6_ResumeMissingRun ==
    [][(/\ last'.op = "start_run"
        /\ last'.resume
        /\ tracker.experiment # None
        /\ runs[RunId(tracker.experiment, last'.arg)] = ABSENT)
       => /\ last'.result \in {NotFound, RemoteError}
          /\ \A id \in RunIds : runs[id] = ABSENT => runs'[id] = ABSENT]_vars

C6_Witness ==
    /\ last.op = "start_run"
    /\ last.resume
    /\ last.result = NotFound
    /\ tracker.experiment # None
    /\ runs[RunId(tracker.experiment, last.arg)] = ABSENT

\* C7: set_experiment called while a run is active never leaves that run bound
\* and never raises NotFound, whether or not the run still exists remotely; when
\* it returns, the tracker is in EXPERIMENT_SET with the new experiment.
C7_SetExperimentDropsRun ==
    (last.op = "set_experiment" /\ last.prev # NoRun) =>
        /\ tracker.run = NoRun
        /\ last.result # NotFound
        /\ last.result = OK =>
            /\ tracker.experiment = last.arg
            /\ TrackerState(tracker) = EXPERIMENT_SET

C7_Witness ==
    /\ last.op = "set_experiment"
    /\ last.result = OK
    /\ last.prev # NoRun
    /\ runs[RunIdOf(last.prev)] = ABSENT
    /\ last.prev.experiment # last.arg
    /\ tracker = [experiment |-> last.arg, run |-> NoRun]

\* C8 as stated: set_experiment ends in EXPERIMENT_SET, start_run takes
\* EXPERIMENT_SET or RUN_ACTIVE to RUN_ACTIVE, end_run takes RUN_ACTIVE to
\* EXPERIMENT_SET, and once an experiment is set no call of the five
\* operations, successful or failed, returns the tracker to NO_EXPERIMENT.
C8_AsStated ==
    [][last'.op \in TrackerOps =>
        /\ (last'.op = "set_experiment" /\ last'.result = OK)
           => TrackerState(tracker') = EXPERIMENT_SET
        /\ (last'.op = "start_run" /\ last'.result = OK)
           => /\ TrackerState(tracker) \in {EXPERIMENT_SET, RUN_ACTIVE}
              /\ TrackerState(tracker') = RUN_ACTIVE
        /\ (last'.op = "end_run" /\ last'.result = OK)
           => /\ TrackerState(tracker) = RUN_ACTIVE
              /\ TrackerState(tracker') = EXPERIMENT_SET
        /\ TrackerState(tracker) # NO_EXPERIMENT
           => TrackerState(tracker') # NO_EXPERIMENT]_vars

\* C8 amended: a set_experiment that returns ends in EXPERIMENT_SET and one that
\* raises ends in NO_EXPERIMENT; start_run raises NotSet in NO_EXPERIMENT, takes
\* EXPERIMENT_SET or RUN_ACTIVE to RUN_ACTIVE when it returns, and when it raises
\* ends in EXPERIMENT_SET, or in RUN_ACTIVE if a resumed run could not be set to
\* RUNNING; end_run takes RUN_ACTIVE to EXPERIMENT_SET whether it returns or
\* raises, and raises NotSet without a change elsewhere; log_params and
\* log_metrics change nothing.  So once an experiment is set, only a
\* set_experiment that raises returns the tracker to NO_EXPERIMENT.
C8_Transitions ==
    [][last'.op \in TrackerOps =>
        LET pre == TrackerState(tracker)
            post == TrackerState(tracker')
            op == last'.op
            ok == last'.result = OK
        IN  /\ op = "set_experiment" =>
                post = (IF ok THEN EXPERIMENT_SET ELSE NO_EXPERIMENT)
            /\ (op = "start_run" /\ pre = NO_EXPERIMENT) =>
                last'.result = NotSet /\ post = NO_EXPERIMENT
            /\ (op = "start_run" /\ pre # NO_EXPERIMENT /\ ok) => post = RUN_ACTIVE
            /\ (op = "start_run" /\ pre # NO_EXPERIMENT /\ ~ok) =>
                \/ post = EXPERIMENT_SET
                \/ post = RUN_ACTIVE /\ last'.resume
            /\ (op = "end_run" /\ pre = RUN_ACTIVE) => post = EXPERIMENT_SET
            /\ (op = "end_run" /\ pre # RUN_ACTIVE) =>
                last'.result = NotSet /\ tracker' = tracker
            /\ op \in {"log_params", "log_metrics"} => tracker' = tracker
            /\ (pre # NO_EXPERIMENT /\ ~(op = "set_experiment" /\ ~ok)) =>
                post # NO_EXPERIMENT]_vars

C8_Witness ==
    /\ last.op = "set_experiment"
    /\ last.result # OK
    /\ last.prev # NoRun
    /\ TrackerState(tracker) = NO_EXPERIMENT

\* C10 as stated: no tracker operation changes the remote state of a run that
\* is COMPLETE or FAILED.
C10_AsStated ==
    [][last'.op \in TrackerOps =>
        \A id \in RunIds : runs[id] \in TerminalStates => runs'[id] = runs[id]]_vars

\* C10 amended: the remote state of a run that is COMPLETE or FAILED is changed
\* only by start_run(resume=true) naming that run, which sets it to RUNNING, or
\* by the end of that run while it is the active run (end_run, or the implicit
\* end of start_run), which sets it to the terminal state given; set_experiment,
\* log_params and log_metrics never change it, and no operation changes the
\* state of a terminal run that is neither active nor named by the call.
C10_TerminalStates ==
    [][last'.op \in TrackerOps =>
        \A id \in RunIds :
            (runs[id] \in TerminalStates /\ runs'[id] # runs[id]) =>
                \/ /\ last'.op = "start_run"
                   /\ last'.resume
                   /\ tracker.experiment # None
                   /\ id = RunId(tracker.experiment, last'.arg)
                   /\ runs'[id] = RUNNING
                \/ /\ last'.op \in {"end_run", "start_run"}
                   /\ tracker.run # NoRun
                   /\ id = RunIdOf(tracker.run)
                   /\ runs'[id] \in TerminalStates]_vars

C10_Witness ==
    /\ last.op = "start_run"
    /\ last.resume
    /\ last.result = OK
    /\ last.calls = 2
    /\ runs[RunIdOf(tracker.run)] = RUNNING
    /\ \E id \in RunIds : id # RunIdOf(tracker.run) /\ runs[id] = FAILED

\* C11: after a successful start_run(run_name, resume=true) on a run that
\* exists remotely, whether it was RUNNING, COMPLETE or FAILED, that run is the
\* active run, its remote state is RUNNING, and no run resource has been
\* created.
C11_ResumeExistingRun ==
    [][(/\ last'.op = "start_run"
        /\ last'.resume
        /\ last'.result = OK
        /\ tracker.experiment # None
        /\ runs[RunId(tracker.experiment, last'.arg)] \in {RUNNING, COMPLETE, FAILED})
       => /\ tracker'.run = [run_name |-> last'.arg,
                             experiment |-> tracker.experiment]
          /\ runs'[RunId(tracker.experiment, last'.arg)] = RUNNING
          /\ \A id \in RunIds : runs[id] = ABSENT => runs'[id] = ABSENT]_vars

C11_Witness ==
    /\ last.op = "start_run"
    /\ last.resume
    /\ last.result = OK
    /\ last.prev # NoRun
    /\ last.prev # tracker.run
    /\ tracker.run = NamedRun
    /\ runs[RunIdOf(tracker.run)] = RUNNING
    /\ runs[RunIdOf(last.prev)] = COMPLETE
    /\ Cardinality({id \in RunIds : runs[id] # ABSENT}) = 2

\* C12: end_run called when no run is active (NO_EXPERIMENT or EXPERIMENT_SET)
\* raises NotSet, issues no remote call and changes neither the tracker nor the
\* remote store; so an end_run directly after a successful end_run raises.
C12_EndRunWithoutRun ==
    [][/\ (last'.op = "end_run" /\ TrackerState(tracker) # RUN_ACTIVE)
          => /\ last'.result = NotSet
             /\ last'.calls = 0
             /\ tracker' = tracker
             /\ runs' = runs
             /\ contexts' = contexts
       /\ (last.op = "end_run" /\ last.result = OK /\ last'.op = "end_run")
          => last'.result = NotSet]_vars

C12_Witness ==
    /\ last.op = "end_run"
    /\ last.result = NotSet
    /\ last.calls = 0
    /\ TrackerState(tracker) = EXPERIMENT_SET
    /\ \E r \in RunNames : runs[RunId(tracker.experiment, r)] \in TerminalStates

\* C13: after end_run(state) returns on an active run that exists remotely,
\* the remote state of that run is the state given, no run is active, and the
\* active experiment is the one it was before the call.
C13_EndRunSetsState ==
    [][(/\ last'.op = "end_run"
        /\ last'.result = OK
        /\ tracker.run # NoRun
        /\ runs[RunIdOf(tracker.run)] # ABSENT)
       => /\ runs'[RunIdOf(tracker.run)] = last'.arg
          /\ tracker'.run = NoRun
          /\ tracker'.experiment = tracker.experiment]_vars

C13_Witness ==
    /\ last.op = "end_run"
    /\ last.result = OK
    /\ ~last.warned
    /\ last.arg = FAILED
    /\ last.prev # NoRun
    /\ runs[RunIdOf(last.prev)] = FAILED
    /\ tracker = [experiment |-> last.prev.experiment, run |-> NoRun]

\* C14: set_experiment called while a run is active issues no remote call on
\* that run (its one remote call fetches or creates the experiment): every run
\* resource, lifecycle state included, is what it was before the call, and the
\* tracker no longer holds the run.
C14_SetExperimentFrame ==
    [][(last'.op = "set_experiment" /\ tracker.run # NoRun)
       => /\ runs' = runs
          /\ last'.calls = 1
          /\ tracker'.run = NoRun]_vars

C14_Witness ==
    /\ last.op = "set_experiment"
    /\ last.result = OK
    /\ last.prev # NoRun
    /\ runs[RunIdOf(last.prev)] = RUNNING
    /\ tracker.run = NoRun
    /\ tracker.experiment = last.prev.experiment

\* C24: start_run called with no experiment set raises NotSet, with
\* resume=False and with resume=True alike, having issued no remote call; the
\* tracker stays in NO_EXPERIMENT and the remote store is as before.
C24_StartRunWithoutExperiment ==
    [][(last'.op = "start_run" /\ TrackerState(tracker) = NO_EXPERIMENT)
       => /\ last'.result = NotSet
          /\ last'.message = StartRunNotSetMessage
          /\ last'.calls = 0
          /\ tracker' = tracker
          /\ TrackerState(tracker') = NO_EXPERIMENT
          /\ contexts' = contexts
          /\ runs' = runs]_vars

\* a resume refused for the missing experiment although the run named exists
\* remotely under some experiment
C24_Witness ==
    /\ last.op = "start_run"
    /\ last.resume
    /\ last.result = NotSet
    /\ last.calls = 0
    /\ TrackerState(tracker) = NO_EXPERIMENT
    /\ \E e \in ExperimentNames : runs[RunId(e, last.arg)] = RUNNING

(***************************************************************************)
(* Properties of the legacy service                                        *)
(***************************************************************************)
LogOps == {"log_params", "log_metrics"}

\* a value that is no number: a string, None or a list
NonNumeric(value) == value.type \in {"str", "NoneType", "list"}

NoExperimentMessage(method_name) ==
    "No experiment set. Make sure to call aiplatform.init(experiment='my-experiment') "
    \o "before trying to " \o method_name \o ". "

NoRunMessage(method_name) ==
    "No run set. Make sure to call aiplatform.start_run('my-run') before trying to "
    \o method_name \o ". "

C5_AsStated ==
    (last.op \in LogOps /\ last.result = NotSet) =>
        last.message = NoRunMessage(last.op)

\* C5 amended: log_params and log_metrics called with no active run raise the
\* not-set error, issue no remote call and change nothing; the message embeds
\* the method name and tells which is missing: "No experiment set. ..." when
\* the experiment is unset, "No run set. ..." when only the run is unset.
C5_NotSet ==
    [][(last'.op \in LogOps /\ service.run = None)
       => /\ last'.result = NotSet
          /\ last'.calls = 0
          /\ store' = store
          /\ service' = service
          /\ last'.message = IF service.experiment = None
                             THEN NoExperimentMessage(last'.op)
                             ELSE NoRunMessage(last'.op)]_vars

C5_Witness ==
    /\ last.op = "log_metrics"
    /\ last.result = NotSet
    /\ service.experiment # None
    /\ service.run = None
    /\ last.message = NoRunMessage("log_metrics")

\* C15: set_experiment(name) when the remote store holds a resource with id
\* name under a schema title other than the Experiment schema raises
\* SchemaConflict (unless one of its two remote calls fails first); the
\* resource, like the rest of the store, is not modified, and the name is not
\* bound as the active experiment.
C15_SchemaConflict ==
    [][(/\ last'.op = "set_experiment"
        /\ store.contexts[last'.arg].schema_title \notin {ABSENT, SYSTEM_EXPERIMENT})
       => /\ last'.result \in {SchemaConflict, RemoteError}
          /\ last'.result = RemoteError => last'.calls \in {1, 2}
          /\ last'.result = SchemaConflict =>
                /\ last'.calls = 2
                /\ last'.message =
                     SchemaConflictMessage("Experiment", last'.arg,
                                           store.contexts[last'.arg].schema_title)
                /\ service'.experiment = None
          /\ store' = store
          /\ service'.experiment # last'.arg]_vars

C15_Witness ==
    /\ last.op = "set_experiment"
    /\ last.result = SchemaConflict
    /\ store.contexts[last.arg] = Resource(SYSTEM_PIPELINE, None)
    /\ service = NoService
    /\ \E id \in LegacyRunIds : store.executions[id].schema_title = SYSTEM_RUN

\* C16 as stated: with a run active, log_metrics rejects a mapping with
\* InvalidMetricType exactly when one of its values is neither an integer nor a
\* floating-point number (a string, a boolean, None, a list).
C16_AsStated ==
    [][(/\ last'.op = "log_metrics"
        /\ service.experiment # None
        /\ service.run # None)
       => (last'.result = InvalidMetricType
             <=> \E i \in 1..Len(last'.arg) :
                    last'.arg[i].value.type \notin {"int", "float"})]_vars


\* the keys of a mapping given as the sequence of its items
KeysOf(items) == {items[i].key : i \in 1..Len(items)}

\* new is old with the items logged: every key of old and every key logged is
\* present, a key logged holds the value logged, any other key its old value
MergedInto(old, items, new) ==
    /\ DOMAIN new = DOMAIN old \cup KeysOf(items)
    /\ \A i \in 1..Len(items) : new[items[i].key] = items[i].value
    /\ \A k \in DOMAIN old \ KeysOf(items) : new[k] = old[k]

\* C17: with no other writer, the mapping stored for a run starts empty, each
\* successful log_metrics (log_params) call merges its mapping into the one
\* stored on the Metrics Artifact (the Run), a logged key taking the value
\* logged, and nothing else changes a stored mapping; so after calls m1..mn
\* the stored mapping is the right-biased merge of m1..mn.
C17_MergeOverwrite ==
    [][LET logged(op) == last'.op = op /\ last'.result = OK
       IN  /\ \A id \in DOMAIN store.executions :
                LET old == store.executions[id]
                    new == store'.executions[id]
                IN  /\ (old.schema_title = ABSENT /\ new.schema_title # ABSENT)
                       => new.metadata = EmptyDict
                    /\ old.schema_title # ABSENT =>
                        IF logged("log_params") /\ id = service.run
                        THEN MergedInto(old.metadata, last'.arg, new.metadata)
                        ELSE new.metadata = old.metadata
           /\ \A mid \in DOMAIN store.artifacts :
                LET old == store.artifacts[mid]
                    new == store'.artifacts[mid]
                IN  /\ (old.schema_title = ABSENT /\ new.schema_title # ABSENT)
                       => new.metadata = EmptyDict
                    /\ old.schema_title # ABSENT =>
                        IF logged("log_metrics") /\ mid = service.metrics
                        THEN MergedInto(old.metadata, last'.arg, new.metadata)
                        ELSE new.metadata = old.metadata]_vars

C17_Witness ==
    /\ last.op = "log_metrics"
    /\ last.result = OK
    /\ Len(last.arg) = 1
    /\ last.arg[1] = Item("a", Val("float", "0.9"))
    /\ service.metrics # None
    /\ store.artifacts[service.metrics].metadata =
          DictOf(<<Item("a", Val("float", "0.9")), Item("b", Val("int", "1"))>>)
    /\ store.executions[service.run].metadata =
          DictOf(<<Item("lr", Val("str", "s")), Item("n", Val("float", "0.1"))>>)

\* C18: within a log_params (log_metrics) call the re-fetch of the Run (of the
\* Metrics Artifact) is issued before the update: a call in progress has issued
\* the fetch alone, and a call that has returned has issued exactly one fetch
\* and then one update, both on the resource of the kind the call is about.
C18_FetchBeforeUpdate ==
    inflight.op # None =>
        /\ inflight.pc = FETCHED => inflight.trace = <<FetchCall(inflight.op)>>
        /\ inflight.pc = DONE =>
              inflight.trace = <<FetchCall(inflight.op), UpdateCall(inflight.op)>>
        /\ inflight.op = "log_params" =>
              /\ inflight.fetched.schema_title = SYSTEM_RUN
              /\ inflight.trace[1] = "Execution.get_or_create"
        /\ inflight.op = "log_metrics" =>
              /\ inflight.fetched.schema_title = SYSTEM_METRICS
              /\ inflight.trace[1] = "Artifact.get_or_create"

C18_Witness ==
    /\ inflight.op = "log_metrics"
    /\ inflight.pc = DONE
    /\ inflight.trace = <<"Artifact.get_or_create", "Artifact.update">>
    /\ last.op = "log_metrics"
    /\ last.result = OK
    /\ last.calls = 2
    /\ inflight.arg = last.arg

\* C19: the fetch and the update of a log call are not atomic and the update
\* is unconditional: whatever the external writer has written to the target
\* since the fetch, the update returns without a conflict error and every key
\* of the call holds the call's value afterwards (last write wins).
C19_LastWriteWins ==
    [][(inflight.pc = FETCHED /\ inflight'.pc = DONE)
       => /\ last'.result = OK
          /\ last'.op = inflight.op
          /\ \A i \in 1..Len(inflight.arg) :
                store'[TargetKind(inflight.op)][inflight.target]
                    .metadata[inflight.arg[i].key] = inflight.arg[i].value]_vars

\* the external writer set a key of the call to another value after the fetch
\* and before the update, and the key holds the call's value
C19_Witness ==
    /\ inflight.op = "log_metrics"
    /\ inflight.pc = DONE
    /\ last.op = "log_metrics"
    /\ last.result = OK
    /\ \E i \in 1..Len(inflight.since), j \in 1..Len(inflight.arg) :
          /\ inflight.since[i].key = inflight.arg[j].key
          /\ inflight.since[i].value # inflight.arg[j].value
          /\ inflight.since[i].key \notin DOMAIN inflight.fetched.metadata
          /\ store.artifacts[inflight.target].metadata[inflight.arg[j].key]
               = inflight.arg[j].value

\* the row the claim gives a run: its experiment and name, a param.<k> column
\* for every parameter logged on it and a metric.<k> column for every metric
ExpectedRow(experiment, run, log) ==
    [c \in {"experiment_name", "run_name"}
            \cup {ColumnName("param", k) : k \in DOMAIN log.params}
            \cup {ColumnName("metric", k) : k \in DOMAIN log.metrics} |->
        IF c = "experiment_name" THEN experiment
        ELSE IF c = "run_name" THEN run
        ELSE IF \E k \in DOMAIN log.params : c = ColumnName("param", k)
        THEN log.params[CHOOSE k \in DOMAIN log.params : c = ColumnName("param", k)]
        ELSE log.metrics[CHOOSE k \in DOMAIN log.metrics :
                            c = ColumnName("metric", k)]]

\* the experiment a table query that returned was about
Queried == IF last.arg = None THEN service.experiment ELSE last.arg

\* C20 as stated: the table query for an experiment E returns exactly one row
\* per run started under E and no row for a run of another experiment, and the
\* row of a run R is {experiment_name: E, run_name: R} with param.k = P[k] and
\* metric.k = M[k] for the parameters P and metrics M logged on R.
C20_AsStated ==
    (last.op = "get_experiment_df" /\ last.result = OK) =>
        LET started == {p \in DOMAIN journal.runs : p[1] = Queried}
        IN  /\ Cardinality(DOMAIN table) = Cardinality(started)
            /\ \A p \in started :
                  \E id \in DOMAIN table :
                      table[id] = ExpectedRow(p[1], p[2], journal.runs[p])
            /\ \A id \in DOMAIN table :
                  \E p \in started :
                      table[id] = ExpectedRow(p[1], p[2], journal.runs[p])

ValidationErrors == {NotSet, InvalidMetricType, SchemaConflict, InvalidResource}

\* a run that is RUNNING remotely and is not the active run of the tracker
Dropped(id) ==
    /\ runs[id] = RUNNING
    /\ (tracker.run = NoRun \/ RunIdOf(tracker.run) # id)

\* no thread is inside a call
Quiescent == \A t \in Threads : threads.of[t].pc = IDLE

\* a thread has found the reference cleared after the check had passed
FoundCleared(t) ==
    \/ threads.of[t].result = AttributeError
    \/ threads.of[t].pending = AttributeError

C22_SetExperimentIdempotent ==
    [][last'.op = "set_experiment" =>
        LET name == last'.arg.experiment
            old == store.contexts[name]
            new == store'.contexts[name]
        IN  /\ \A other \in DOMAIN store.contexts \ {name} :
                  store'.contexts[other] = store.contexts[other]
            /\ store'.executions = store.executions
            /\ store'.artifacts = store.artifacts
            /\ old.schema_title = ABSENT =>
                  /\ last'.result \in {OK, RemoteError}
                  /\ last'.result = OK =>
                        /\ new.schema_title = SYSTEM_EXPERIMENT
                        /\ new.display_name = name
                        /\ new.metadata = EmptyDict
            /\ old.schema_title = SYSTEM_EXPERIMENT =>
                  /\ last'.result \in {OK, RemoteError}
                  /\ new.schema_title = SYSTEM_EXPERIMENT
                  /\ new.display_name = old.display_name
                  /\ new.metadata = old.metadata
                  /\ new.description \in {old.description, last'.arg.description}
            /\ last'.result = OK => service'.experiment = name]_vars

\* a set_experiment that returned the Experiment an earlier call had created:
\* a run started in between is linked under it
C22_Witness ==
    /\ last.op = "set_experiment"
    /\ last.result = OK
    /\ last.calls = 2
    /\ service.experiment = last.arg.experiment
    /\ service.run = None
    /\ last.arg.description = None
    /\ store.contexts[last.arg.experiment].description = "d1"
    /\ \E id \in LegacyRunIds : <<last.arg.experiment, id>> \in store.links

\* the text of a description: a resource with no description has the empty one
TextOf(description) == IF description = None THEN "" ELSE description

\* the description stored when set_experiment compares it: that of the context
\* found, or the one the context has just been created with
StoredDescription(old, description) ==
    IF old.schema_title = ABSENT THEN description ELSE old.description

\* C23 as stated: a set_experiment(name, description) that returns has issued
\* the remote update (its third remote call) exactly when a description was
\* supplied and differs from the stored one; with a description supplied the
\* stored description equals it afterwards; the metadata of the experiment is
\* as before.
C23_AsStated ==
    [][(last'.op = "set_experiment" /\ last'.result = OK) =>
        LET description == last'.arg.description
            old == store.contexts[last'.arg.experiment]
            new == store'.contexts[last'.arg.experiment]
        IN  /\ last'.calls = 3 <=>
                  (/\ description # None
                   /\ TextOf(description)
                        # TextOf(StoredDescription(old, description)))
            /\ description # None =>
                  TextOf(new.description) = TextOf(description)
            /\ old.schema_title # ABSENT => new.metadata = old.metadata]_vars

\* C25: in every state of the legacy service the active run and the active
\* Metrics Artifact are both set or both unset; when set an experiment is
\* active, the id of the run is <experiment id>-<run name>, the id of the
\* Metrics Artifact is that id followed by -metrics, and the two resources
\* are of the Run and the Metrics schema.
C25_RunAndMetricsTogether ==
    /\ service.run = None <=> service.metrics = None
    /\ service.run # None =>
        /\ service.experiment # None
        /\ \E run \in LegacyRunNames :
              service.run = service.experiment \o "-" \o run
        /\ service.metrics = service.run \o "-metrics"
        /\ store.executions[service.run].schema_title = SYSTEM_RUN
        /\ store.artifacts[service.metrics].schema_title = SYSTEM_METRICS
    /\ (last.op = "start_run" /\ last.result = OK) =>
        /\ service.run = service.experiment \o "-" \o last.arg
        /\ service.metrics = service.experiment \o "-" \o last.arg \o "-metrics"

\* a run and its Metrics Artifact active under the second experiment set, the
\* run of the first experiment still in the store
C25_Witness ==
    /\ last.op = "start_run"
    /\ last.result = OK
    /\ service.experiment = "e2"
    /\ service.run = "e2-r1"
    /\ service.metrics = "e2-r1-metrics"
    /\ store.executions["e1-r1"].schema_title = SYSTEM_RUN
    /\ <<"e2-r1", "e2-r1-metrics">> \in store.events

\* C26: the table query for a name under which the store holds a resource of
\* another schema than the Experiment schema raises InvalidResource after the
\* one remote call that fetched the resource: the run query is not issued.  A
\* name the store holds nothing under raises NotFound.  With the name omitted
\* and an experiment active, the runs listed are those of the active
\* experiment.  (A failing remote call raises its own error instead.)
C26_TableQueryResolution ==
    [][last'.op = "get_experiment_df" =>
        LET name == last'.arg
            title == store.contexts[name].schema_title
        IN  /\ store' = store
            /\ service' = service
            /\ (name # None /\ title \notin {ABSENT, SYSTEM_EXPERIMENT}) =>
                  /\ last'.result \in {InvalidResource, RemoteError}
                  /\ last'.calls = 1
                  /\ last'.result = InvalidResource =>
                        last'.message = "Please provide a valid experiment name. "
                                        \o name \o " is not a experiment."
            /\ (name # None /\ title = ABSENT) =>
                  /\ last'.result \in {NotFound, RemoteError}
                  /\ last'.calls = 1
            /\ (name # None /\ title = SYSTEM_EXPERIMENT) =>
                  /\ last'.result \in {OK, RemoteError}
                  /\ last'.result = OK =>
                        last'.calls = 2 + Cardinality(RunsInContext(store, name))
            /\ (name = None /\ service.experiment # None) =>
                  /\ last'.result \in {OK, RemoteError}
                  /\ last'.result = OK =>
                        last'.calls =
                          1 + Cardinality(RunsInContext(store, service.experiment))]_vars

\* the query for a name held by a resource of another kind, refused while
\* another experiment is active and has a run
C26_Witness ==
    /\ last.op = "get_experiment_df"
    /\ last.result = InvalidResource
    /\ last.calls = 1
    /\ last.arg # None
    /\ store.contexts[last.arg].schema_title = SYSTEM_PIPELINE
    /\ service.experiment # None
    /\ service.experiment # last.arg
    /\ RunsInContext(store, service.experiment) # {}

\* the columns of a mapping under a metadata type
ColumnsOf(metadata_type, metadata) ==
    {ColumnName(metadata_type, k) : k \in DOMAIN metadata}

\* the artifacts associated to a run execution as output
OutputsOf(st, id) == {mid \in DOMAIN st.artifacts : <<id, mid>> \in st.events}

\* C27 as stated: in the table a query returns, the metric.<key> columns of
\* the row of a run are those of the Metrics Artifacts associated to the run
\* as output, with their values: an artifact associated as input, or one of
\* another run, adds no column.
C27_AsStated ==
    (last.op = "get_experiment_df" /\ last.result = OK) =>
        \A id \in DOMAIN table :
            DOMAIN table[id] =
                {"experiment_name", "run_name"}
                \cup ColumnsOf("param", store.executions[id].metadata)
                \cup UNION {ColumnsOf("metric", store.artifacts[mid].metadata) :
                                mid \in OutputsOf(store, id)}

\* the columns a run has of its own: the two names, its parameters and the
\* metrics logged on it
OwnColumns(st, id) ==
    {"experiment_name", "run_name"}
    \cup ColumnsOf("param", st.executions[id].metadata)
    \cup UNION {ColumnsOf("metric", st.artifacts[mid].metadata) :
                    mid \in OutputsOf(st, id)}

\* C29 as stated: the table is sparse: the row of a run holds a param.<k> or
\* metric.<k> column only if that run itself has that parameter or metric; a
\* key logged only on another run of the same experiment is absent from the
\* row.
C29_AsStated ==
    (last.op = "get_experiment_df" /\ last.result = OK) =>
        \A id \in DOMAIN table : DOMAIN table[id] \subseteq OwnColumns(store, id)

\* the part of C29 that holds: a row never lacks a column of its run and
\* never holds one that no resource associated to its run has
RowsHoldNoFiller ==
    (last.op = "get_experiment_df" /\ last.result = OK) =>
        \A id \in DOMAIN table :
            /\ OwnColumns(store, id) \subseteq DOMAIN table[id]
            /\ DOMAIN table[id] \subseteq
                    OwnColumns(store, id)
                    \cup UNION {ColumnsOf("metric", store.artifacts[mid].metadata) :
                                    mid \in ArtifactsOf(store, id)}
            /\ store.inputs = {} => DOMAIN table[id] = OwnColumns(store, id)

\* k': the key with the prefix removed when a prefix is given and the key
\* starts with it, the key itself otherwise
Stripped(k, prefix) ==
    IF prefix # None /\ StartsWith(k, prefix)
    THEN SliceFrom(k, Len(prefix)) ELSE k

\* the column the rule gives item i of the call the function was applied to
ColumnOfItem(i) ==
    ColumnName(last.arg.metadata_type,
               Stripped(last.arg.metadata[i].key, last.arg.filter_prefix))

Applied == last.op = "_execution_to_column_named_metadata"

\* the columns of the result are those the rule gives the keys, and with no
\* prefix given there is exactly one column for every key
ColumnsAreOfKeys ==
    /\ DOMAIN table = {ColumnOfItem(i) : i \in 1..Len(last.arg.metadata)}
    /\ last.arg.filter_prefix = None =>
            /\ Cardinality(DOMAIN table) = Len(last.arg.metadata)
            /\ \A i \in 1..Len(last.arg.metadata) :
                    table[ColumnName(last.arg.metadata_type,
                                     last.arg.metadata[i].key)]
                        = last.arg.metadata[i].value

\* C28 as stated: for a metadata type c, a mapping m and a prefix, the result
\* maps c.k' to m[k] for every key k of m, k' being k with the prefix removed
\* when a prefix is given and k starts with it, and k otherwise; with no
\* prefix given the result has exactly one column for every key of m and no
\* other column.
C28_AsStated ==
    Applied =>
        /\ ColumnsAreOfKeys
        /\ \A i \in 1..Len(last.arg.metadata) :
                table[ColumnOfItem(i)] = last.arg.metadata[i].value

\* C28 amended: the columns of the result are exactly the c.k' of the keys k
\* of m; the column c.k' holds m[k] for the key k visited last among the keys
\* that give that column, so where removing the prefix makes two keys give one
\* column the value of the earlier key is dropped; with no prefix given the
\* result has exactly one column for every key of m, holding its value, and no
\* other column.
C28_KeyPrefixing ==
    Applied =>
        /\ ColumnsAreOfKeys
        /\ \A i \in 1..Len(last.arg.metadata) :
                (\A j \in (i + 1)..Len(last.arg.metadata) :
                    ColumnOfItem(j) # ColumnOfItem(i))
                => table[ColumnOfItem(i)] = last.arg.metadata[i].value

\* the function applied with the prefix "input:" to a mapping holding the
\* keys "input:lr" and "lr", in that order, with different values
C28_Witness ==
    /\ Applied
    /\ last.arg.filter_prefix = "input:"
    /\ Len(last.arg.metadata) = 2
    /\ last.arg.metadata[1].key = "input:lr"
    /\ last.arg.metadata[2].key = "lr"
    /\ last.arg.metadata[1].value # last.arg.metadata[2].value
    /\ Cardinality(DOMAIN table) = 1

\* the outcome r of an operation whose remote call number fault fails, beside
\* the outcome r0 of the same operation with no failing call: when the
\* operation gets as far as that call, it ends there with the error of the
\* call; when it does not, the outcome is that of r0
Propagates(r0, r, fault) ==
    IF r0.calls >= fault
    THEN r.result = RemoteError /\ r.calls = fault
    ELSE r = r0

\* the remote calls a start_run issues when none fails: the end of the
\* previous run, then the lookup and the update of a resumed run or the
\* creation of a new one
StartRunCalls(prev, resume) ==
    (IF prev # NoRun THEN 1 ELSE 0) + (IF resume THEN 2 ELSE 1)

\* what the caller of the last operation saw: no remote call was issued more
\* than once, and a warning stands for a NotFound of the end of a run
IssuedOnce ==
    /\ last.op = "reset" => last.calls = 0
    /\ last.op = "set_experiment" => last.calls = 1
    /\ last.op = "end_run" =>
            last.calls = IF last.result = NotSet THEN 0 ELSE 1
    /\ last.op \in {"log_params", "log_metrics"} =>
            /\ last.calls <= 2
            /\ last.result = OK => last.calls = 2
            /\ last.result = NotSet <=> last.calls = 0
    /\ last.op = "start_run" =>
            /\ last.calls <= StartRunCalls(last.prev, last.resume)
            /\ last.result = OK =>
                    last.calls = StartRunCalls(last.prev, last.resume)
            /\ last.result = NotSet <=> last.calls = 0
    /\ last.warned =>
            /\ last.prev # NoRun
            /\ last.op \in {"end_run", "start_run"}
            /\ runs[RunIdOf(last.prev)] = ABSENT \/ last.op = "start_run"

\* C30: no operation of the tracker issues a remote call a second time, and
\* a remote call that fails ends the operation with its error, no further
\* call issued; the one failure not raised is a NotFound of the end of a run
\* (end_run, or the end of the previous run inside start_run), which is
\* logged as a warning.
C30_NoRetries ==
    /\ IssuedOnce
    /\ \A experiment \in ExperimentNames :
            Propagates(
                ExperimentTracker_set_experiment(tracker, contexts, runs,
                                                 experiment, 0),
                ExperimentTracker_set_experiment(tracker, contexts, runs,
                                                 experiment, 1), 1)
    /\ \A state \in TerminalStates :
            LET r0 == ExperimentTracker_end_run(tracker, contexts, runs, state, 0)
            IN  /\ Propagates(r0,
                              ExperimentTracker_end_run(tracker, contexts, runs,
                                                        state, 1), 1)
                /\ (tracker.run # NoRun /\ runs[RunIdOf(tracker.run)] = ABSENT)
                        => r0.result = OK /\ r0.warned /\ r0.calls = 1
    /\ \A run_name \in RunNames, resume \in BOOLEAN :
            LET r0 == ExperimentTracker_start_run(tracker, contexts, runs,
                                                  run_name, resume, 0)
            IN  /\ \A fault \in 1..3 :
                        Propagates(r0,
                                   ExperimentTracker_start_run(
                                       tracker, contexts, runs, run_name,
                                       resume, fault), fault)
                /\ (tracker.experiment # None /\ resume
                     /\ runs[RunId(tracker.experiment, run_name)] = ABSENT)
                        => r0.result = NotFound
    /\ \A fault \in 1..2 :
            /\ Propagates(ExperimentTracker_log_params(tracker, contexts, runs, 0),
                          ExperimentTracker_log_params(tracker, contexts, runs,
                                                       fault), fault)
            /\ Propagates(ExperimentTracker_log_metrics(tracker, contexts, runs, 0),
                          ExperimentTracker_log_metrics(tracker, contexts, runs,
                                                        fault), fault)
    /\ (tracker.run # NoRun /\ runs[RunIdOf(tracker.run)] = ABSENT) =>
            /\ ExperimentTracker_log_params(tracker, contexts, runs, 0).result
                    = NotFound
            /\ ExperimentTracker_log_metrics(tracker, contexts, runs, 0).result
                    = NotFound

\* a start_run that ended the previous run and whose creation of the new run
\* failed: two calls issued, the error raised, no run bound
C30_Witness ==
    /\ last.op = "start_run"
    /\ ~last.resume
    /\ last.prev # NoRun
    /\ last.result = RemoteError
    /\ last.calls = 2
    /\ tracker.run = NoRun
    /\ runs[RunId(tracker.experiment, last.arg)] = ABSENT

\* the number of times the store was asked to link the pair
TimesLinked(st, parent, id) ==
    Cardinality({i \in 1..Len(st.children) : st.children[i] = <<parent, id>>})

\* C31: creating the context of a run links it to the active experiment
\* idempotently: the link call is issued only when the experiment is not yet
\* among the parents of the context, so a run created again under the same
\* experiment issues no link call, and after a creation that returns the run
\* is linked to the experiment exactly once; no pair is ever linked twice.
C31_LinkIdempotent ==
    [][last'.op = "_create_experiment_run_context" =>
        LET id == RunId(service.experiment, last'.arg)
        IN  /\ \A p \in ExperimentNames, c \in RunIds :
                    TimesLinked(store', p, c) <= 1
            /\ (service.experiment # None /\ last'.calls >= 2) =>
                    service.experiment \notin ParentContexts(store, id)
            /\ (service.experiment # None
                 /\ service.experiment \in ParentContexts(store, id)) =>
                    /\ last'.calls <= 1
                    /\ store'.children = store.children
            /\ last'.result = OK =>
                    /\ TimesLinked(store', service.experiment, id) = 1
                    /\ store'.contexts[id].schema_title = SYSTEM_EXPERIMENT_RUN
                    /\ last'.calls \in {1, 3}]_vars

\* a run created a second time under the same experiment: one remote call,
\* the lookup, and the link made by the first creation still the only one
C31_Witness ==
    /\ last.op = "_create_experiment_run_context"
    /\ last.result = OK
    /\ last.calls = 1
    /\ service.experiment # None
    /\ TimesLinked(store, service.experiment,
                   RunId(service.experiment, last.arg)) = 1

\* a non-legacy run is active and the call names another project or
\* location than the run's
OtherPlace(tr, st, a) ==
    /\ tr.run # NoRun
    /\ ~IsLegacy(st, tr.run)
    /\ \/ Truthy(a.project) /\ a.project # RunProject
       \/ Truthy(a.location) /\ a.location # RunLocation

\* the arguments start_execution rejects
BadArguments(tr, st, a) ==
    \/ OtherPlace(tr, st, a)
    \/ a.resume /\ ~Truthy(a.resource_id)
    \/ ~a.resume /\ ~Truthy(a.schema_title)

\* C32: start_execution raises ValueError for resume=true without a
\* resource_id, for a new execution without a schema_title and, while a
\* non-legacy run is active, for a project or location other than the run's;
\* it does so before any remote call and with the tracker and the store as
\* they were, raises ValueError for nothing else, and needs no active run.
C32_StartExecutionArguments ==
    [][last'.op = "start_execution" =>
        /\ BadArguments(tracker, store, last'.arg) <=> last'.result = BadArgument
        /\ last'.result = BadArgument =>
                /\ last'.calls = 0
                /\ tracker' = tracker
                /\ store' = store
                /\ runs' = runs
                /\ contexts' = contexts
        /\ last'.result # NotSet
        /\ tracker' = tracker]_vars

\* an execution started under another project than the active run's, which is
\* not a legacy run: ValueError, no remote call
C32_Witness ==
    /\ last.op = "start_execution"
    /\ last.result = BadArgument
    /\ last.calls = 0
    /\ last.arg.project = "p2"
    /\ Truthy(last.arg.schema_title)
    /\ tracker.run # NoRun
    /\ ~IsLegacy(store, tracker.run)

\* C33 as stated: when start_run raises an error (NotSet, NotFound on resume,
\* a remote failure while the run is created or while the resumed run is set
\* to RUNNING), the tracker has no active run afterwards: a run is bound only
\* by a start_run that returns.
C33_AsStated ==
    (last.op = "start_run" /\ last.result # OK) => tracker.run = NoRun

\* the part of C33 that holds: a start_run that raised left a run bound only
\* when it resumed a run and the update of its state failed, and the run
\* bound is then the run named
StartRunBindsOnUpdateFailure ==
    (last.op = "start_run" /\ last.result # OK /\ tracker.run # NoRun) =>
        /\ last.resume
        /\ last.result = RemoteError
        /\ last.calls = StartRunCalls(last.prev, TRUE)
        /\ tracker.run = [run_name |-> last.arg, experiment |-> tracker.experiment]

\* C34: end_run clears the active run on every exit path: after an end_run
\* called with a run active the tracker is in EXPERIMENT_SET, with the same
\* experiment and no run, whatever the call raised; and when the remote end
\* call fails with an error other than NotFound, end_run raises that error.
C34_EndRunAlwaysClears ==
    /\ (last.op = "end_run" /\ last.prev # NoRun) =>
            /\ tracker.run = NoRun
            /\ tracker.experiment = last.prev.experiment
            /\ TrackerState(tracker) = EXPERIMENT_SET
            /\ last.result \in {OK, RemoteError}
    /\ tracker.run # NoRun =>
            \A state \in TerminalStates :
                LET r == ExperimentTracker_end_run(tracker, contexts, runs,
                                                   state, 1)
                IN  /\ r.result = RemoteError
                    /\ r.tracker = [experiment |-> tracker.experiment,
                                    run |-> NoRun]
                    /\ r.runs = runs

\* an end_run whose remote call failed: the error raised, the run still
\* RUNNING in the store, and no run active
C34_Witness ==
    /\ last.op = "end_run"
    /\ last.result = RemoteError
    /\ last.prev # NoRun
    /\ runs[RunIdOf(last.prev)] = RUNNING
    /\ tracker.run = NoRun
    /\ TrackerState(tracker) = EXPERIMENT_SET

\* C35 as stated: set_experiment clears before it contacts the remote store:
\* after a set_experiment that failed, with a SchemaConflict or a remote
\* error, neither an experiment nor a run is active, on the tracker and on
\* the legacy service alike, even if both were active before the call.
C35_AsStated ==
    (last.op = "set_experiment" /\ last.result # OK) =>
        /\ tracker.experiment = None
        /\ tracker.run = NoRun
        /\ service.experiment = None
        /\ service.run = None

\* the part of C35 that holds of the legacy service: a set_experiment that
\* failed after its first remote call left nothing active
LegacySetExperimentClearsAfterFirstCall ==
    (last.op = "set_experiment" /\ last.result # OK /\ last.calls >= 2) =>
        service = NoService

\* C36: start_run called while the active run has been deleted remotely
\* behaves as start_run with no run active, one remote call and one warning
\* more: the NotFound of the implicit end of the old run is not raised, and a
\* start that creates a run under a free name returns it, active and RUNNING.
C36_StartRunAfterDeletedRun ==
    /\ (tracker.run # NoRun /\ runs[RunIdOf(tracker.run)] = ABSENT) =>
            \A run_name \in RunNames, resume \in BOOLEAN :
                LET bare == [tracker EXCEPT !.run = NoRun]
                    new == [run_name |-> run_name,
                            experiment |-> tracker.experiment]
                    r == ExperimentTracker_start_run(tracker, contexts, runs,
                                                     run_name, resume, 0)
                    b == ExperimentTracker_start_run(bare, contexts, runs,
                                                     run_name, resume, 0)
                IN  /\ r.warned
                    /\ r.result = b.result
                    /\ r.tracker = b.tracker
                    /\ r.runs = b.runs
                    /\ r.calls = b.calls + 1
                    /\ (~resume /\ runs[RunIdOf(new)] = ABSENT) =>
                            /\ r.result = OK
                            /\ r.tracker.run = new
                            /\ r.runs[RunIdOf(new)] = RUNNING
    /\ (last.op = "start_run" /\ last.warned /\ last.result = OK) =>
            /\ tracker.run = [run_name |-> last.arg,
                              experiment |-> tracker.experiment]
            /\ runs[RunIdOf(tracker.run)] # ABSENT

\* a new run started while the run that was active is absent from the store
C36_Witness ==
    /\ last.op = "start_run"
    /\ ~last.resume
    /\ last.result = OK
    /\ last.warned
    /\ last.prev # NoRun
    /\ last.prev.run_name # last.arg
    /\ runs[RunIdOf(last.prev)] = ABSENT
    /\ tracker.run = [run_name |-> last.arg, experiment |-> tracker.experiment]
    /\ runs[RunIdOf(tracker.run)] = RUNNING

\* C37: log_params, log_metrics, get_experiment_df and start_execution leave
\* the active experiment and the active run of the tracker as they were,
\* whether they return or raise; get_experiment_df also leaves the remote
\* store as it was.
C37_ReferencesUnchanged ==
    [][(last'.op \in {"log_params", "log_metrics", "get_experiment_df",
                      "start_execution"})
       => /\ tracker' = tracker
          /\ last'.prev = tracker'.run
          /\ last'.op = "get_experiment_df" =>
                /\ store' = store
                /\ runs' = runs
                /\ contexts' = contexts]_vars

\* a table query, for an experiment that is not the active one, that failed
\* on its second remote call with a run active
C37_Witness ==
    /\ last.op = "get_experiment_df"
    /\ Truthy(last.arg)
    /\ last.result = RemoteError
    /\ last.calls = 2
    /\ tracker.run # NoRun
    /\ tracker.run = last.prev
    /\ tracker.experiment # last.arg

\* C38: query sets the agent up lazily: a query on an agent whose runnable is
\* unset runs set_up first and invokes only when set_up returned, a query on
\* an agent that is set up only invokes, every invoke is on a runnable that
\* is set, and the queries of one agent set it up at most once.
C38_LazySetUp ==
    [][last'.op = "query" =>
        /\ agent.runnable = None =>
                /\ agent'.steps \in {<<SET_UP>>, <<SET_UP, INVOKE>>}
                /\ agent'.steps = <<SET_UP>> <=> agent'.runnable = None
                /\ agent'.steps = <<SET_UP>> => last'.result # OK
                /\ agent'.lazy = agent.lazy + Len(agent'.steps) - 1
        /\ agent.runnable # None =>
                /\ agent'.steps = <<INVOKE>>
                /\ agent'.lazy = agent.lazy
        /\ agent'.steps[Len(agent'.steps)] = INVOKE =>
                agent'.runnable = RUNNABLE
        /\ agent'.lazy <= 1]_vars

\* a query that only invoked, on an agent that an earlier query had set up
C38_Witness ==
    /\ last.op = "query"
    /\ agent.steps = <<INVOKE>>
    /\ agent.lazy = 1
    /\ agent.runnable = RUNNABLE

\* C39 as stated: set_up, called by the caller or by query, leaves the
\* process-wide project and location as they were before the call, on every
\* exit path, a failure while the model is constructed included.
C39_AsStated ==
    [][(last'.op \in {"set_up", "query"}) =>
            global_config' = global_config]_vars

\* the part of C39 that holds: a call that changed the configuration is one
\* whose set_up failed while the model was constructed, and it left the
\* agent's own project and location in place
SetUpRestoresUnlessModelFails ==
    [][(last'.op \in {"set_up", "query"} /\ global_config' # global_config) =>
            /\ last'.result # OK
            /\ agent'.steps = <<SET_UP>>
            /\ agent'.llm = agent.llm
            /\ agent'.runnable = agent.runnable
            /\ global_config' = [project |-> agent.project,
                                  location |-> agent.location]]_vars

\* C9 as stated: an operation that raises a validation error has issued no
\* remote call.
C9_AsStated ==
    last.result \in ValidationErrors => last.calls = 0

\* C9 amended: NotSet and InvalidMetricType are raised with no remote call
\* issued; a schema mismatch (SchemaConflict, InvalidResource) is raised right
\* after the remote call that fetched or created the resource whose schema is
\* checked: the second call of set_experiment, the first or third call of
\* start_run, the first call of the table query.
C9_ValidationAndRemoteCalls ==
    /\ last.result \in {NotSet, InvalidMetricType} => last.calls = 0
    /\ last.result = SchemaConflict =>
        \/ last.op = "set_experiment" /\ last.calls = 2
        \/ last.op = "start_run" /\ last.calls \in {1, 3}
    /\ last.result = InvalidResource =>
        last.op = "get_experiment_df" /\ last.calls = 1

C9_Witness ==
    /\ last.op = "start_run"
    /\ last.result = SchemaConflict
    /\ last.calls = 3
    /\ service.run = None

====
